---- MODULE Spec2Model ----
(***************************************************************************)
(* SyncRep: bidirectional mirror between an Obsidian vault (the managed    *)
(* store) and a plain directory (the external store).                      *)
(*                                                                         *)
(* Paths are sequences of one-character strings, so that the prefix tests  *)
(* of the path policy (startsWith(folder + '/')) are computed on           *)
(* characters exactly as the code computes them.                           *)
(***************************************************************************)
EXTENDS Naturals, Integers, Sequences, FiniteSets, Bags, TLC

VARIABLES
    settings,   \* SyncRepSettings shared by FileSync, DirectorySync and the plugin
    watchMode,  \* "recursive" | "fallback": whether fs.watch accepts recursive
    vault,      \* managed store: vault path -> Absent | Dir | file content
    ext,        \* external store: absolute path -> Absent | Dir | file content
    guard,      \* FileSync.isProcessingExternalChange (the Change Guard)
    timers,     \* bag of pending setTimeout callbacks
    watchQ,     \* raw fs.watch events raised and not yet delivered
    inbound,    \* handleExternalFileChange invocations suspended at an await
    outbound,   \* syncFile invocations suspended before fsWriteFile lands
    prompts,    \* open ConfirmationModal dialogs
    fullSync,   \* the running syncFromExternal invocation, if any
    budget,     \* remaining environment steps and commands
    log,        \* what the last step did (calls issued to either store)
    fileWatchers, \* DirectorySync.fileWatchers: bag of the fs.watch watchers
    statQ,      \* watch callbacks suspended at their await fsStat
    lifecycle   \* whether a saveSettings call is suspended, whether onunload has run

vars == <<settings, watchMode, vault, ext, guard, timers, watchQ, inbound,
          outbound, prompts, fullSync, budget, log, fileWatchers, statQ,
          lifecycle>>

(***************************************************************************)
(* Bounds of the model.                                                    *)
(***************************************************************************)
MaxContent == 2      \* file contents are 1..MaxContent
MaxEnvSteps == 1     \* user edits (either store) per behaviour
MaxFullSyncs == 2    \* syncFromExternal commands per behaviour
MaxInflight == 2     \* suspended handler invocations per direction
MaxTimers == 2       \* pending setTimeout callbacks
MaxWatchers == 8     \* fs.watch watchers held in fileWatchers

Contents == 1..MaxContent

(***************************************************************************)
(* Strings                                                                 *)
(***************************************************************************)
Slash == "/"
Backslash == "\\"
EmptyPath == << >>

\* String.prototype.startsWith
StartsWith(s, prefix) ==
    /\ Len(prefix) <= Len(s)
    /\ SubSeq(s, 1, Len(prefix)) = prefix

\* index of the last '/' of s, 0 if there is none
LastSlash(s) ==
    LET idx == {i \in 1..Len(s) : s[i] = Slash}
    IN  IF idx = {} THEN 0 ELSE CHOOSE i \in idx : \A j \in idx : j <= i

\* path.basename
Basename(p) == SubSeq(p, LastSlash(p) + 1, Len(p))

\* path.dirname ('.' when the path has no directory part)
Dirname(p) ==
    IF LastSlash(p) = 0 THEN <<".">> ELSE SubSeq(p, 1, LastSlash(p) - 1)

\* path.join of two parts (an empty part is skipped)
Join(a, b) ==
    IF a = EmptyPath THEN b
    ELSE IF b = EmptyPath THEN a
    ELSE a \o <<Slash>> \o b

\* path.relative(from, to): the part of `to` below `from`; a path outside
\* `from` climbs with '..' segments
RECURSIVE PathRelative(_, _)
PathRelative(from, to) ==
    IF to = from THEN EmptyPath
    ELSE IF StartsWith(to, from \o <<Slash>>)
         THEN SubSeq(to, Len(from) + 2, Len(to))
    ELSE IF LastSlash(from) = 0 THEN Join(<<".", ".">>, to)
    ELSE Join(<<".", ".">>, PathRelative(Dirname(from), to))

\* String.prototype.split('/')
RECURSIVE SplitPath(_)
SplitPath(p) ==
    LET idx == {i \in 1..Len(p) : p[i] = Slash}
    IN  IF idx = {} THEN <<p>>
        ELSE LET i == CHOOSE k \in idx : \A j \in idx : k <= j
             IN  <<SubSeq(p, 1, i - 1)>> \o SplitPath(SubSeq(p, i + 1, Len(p)))

(***************************************************************************)
(* The stores.  A store maps a path to what is at that path.               *)
(***************************************************************************)
Abs == [k |-> "none", c |-> 0]
DirV == [k |-> "dir", c |-> 0]
FileV(c) == [k |-> "file", c |-> c]
\* an external directory that cannot be listed (fsReaddir fails on it)
LockedDirV == [k |-> "dir", c |-> 1]

Root == <<"R">>
pA == <<"a">>
pAF == <<"a", "/", "f">>
pAB == <<"a", "/", "b">>
pABF == <<"a", "/", "b", "/", "f">>
pB == <<"b">>
pBF == <<"b", "/", "f">>
\* a file of a binary kind (isBinaryFileType), used by SpecBinary
pAP == <<"a", "/", "p", ".", "p", "n", "g">>

\* the vault paths of the model; the user and the other programs create
\* files at the paths whose last segment is "f" and folders at the others
RelPaths == {pA, pAF, pAB, pABF, pB, pBF}
IsFilePath(p) == Basename(p) = <<"f">>
FilePaths == {p \in RelPaths : IsFilePath(p)}
DirPaths == RelPaths \ FilePaths
ExtPaths == {Root} \cup {Join(Root, p) : p \in RelPaths}
\* directory entry names, in readdir order
Names == << <<"a">>, <<"b">>, <<"f">>, <<"p", ".", "p", "n", "g">> >>

Get(store, p) == IF p \in DOMAIN store THEN store[p] ELSE Abs
Put(store, p, v) == IF p \in DOMAIN store THEN [store EXCEPT ![p] = v] ELSE store

\* p is q or lies below q in the tree
Under(p, q) == p = q \/ StartsWith(p, q \o <<Slash>>)
\* the path p, which is under from, moved under to
Rebase(p, from, to) == to \o SubSeq(p, Len(from) + 1, Len(p))

(***************************************************************************)
(* File kinds and text decoding                                            *)
(***************************************************************************)
Uppers == <<"A", "B", "C", "D", "E", "F", "G", "H", "I", "J", "K", "L", "M", "N", "O", "P", "Q", "R", "S", "T", "U", "V", "W", "X", "Y", "Z">>
Lowers == <<"a", "b", "c", "d", "e", "f", "g", "h", "i", "j", "k", "l", "m", "n", "o", "p", "q", "r", "s", "t", "u", "v", "w", "x", "y", "z">>
LowerChar(ch) ==
    IF \E i \in DOMAIN Uppers : Uppers[i] = ch
    THEN Lowers[CHOOSE i \in DOMAIN Uppers : Uppers[i] = ch]
    ELSE ch
\* String.prototype.toLowerCase
ToLowerCase(s) == [i \in DOMAIN s |-> LowerChar(s[i])]

\* path.extname: from the last '.' of the basename, '' if there is none or
\* if the basename only starts with it
Extname(p) ==
    LET b == Basename(p)
        idx == {i \in 1..Len(b) : b[i] = "."}
        last == IF idx = {} THEN 0 ELSE CHOOSE i \in idx : \A j \in idx : j <= i
    IN  IF last <= 1 THEN EmptyPath ELSE SubSeq(b, last, Len(b))

binaryExtensions ==
    {
      <<".", "p", "n", "g">>, <<".", "j", "p", "g">>, <<".", "j", "p", "e", "g">>, <<".", "g", "i", "f">>, <<".", "b", "m", "p">>, <<".", "t", "i", "f", "f">>, <<".", "w", "e", "b", "p">>,
      <<".", "p", "d", "f">>, <<".", "d", "o", "c">>, <<".", "d", "o", "c", "x">>, <<".", "x", "l", "s">>, <<".", "x", "l", "s", "x">>, <<".", "p", "p", "t">>, <<".", "p", "p", "t", "x">>,
      <<".", "z", "i", "p">>, <<".", "r", "a", "r">>, <<".", "7", "z">>, <<".", "t", "a", "r">>, <<".", "g", "z">>,
      <<".", "m", "p", "3">>, <<".", "w", "a", "v">>, <<".", "o", "g", "g">>, <<".", "f", "l", "a", "c">>, <<".", "m", "4", "a">>,
      <<".", "m", "p", "4">>, <<".", "a", "v", "i">>, <<".", "m", "o", "v">>, <<".", "w", "m", "v">>, <<".", "m", "k", "v">>, <<".", "w", "e", "b", "m">>,
      <<".", "e", "x", "e">>, <<".", "d", "l", "l">>, <<".", "s", "o">>, <<".", "d", "y", "l", "i", "b">>,
      <<".", "t", "t", "f">>, <<".", "o", "t", "f">>, <<".", "w", "o", "f", "f">>, <<".", "w", "o", "f", "f", "2">>
    }

isBinaryFileType(filePath) == ToLowerCase(Extname(filePath)) \in binaryExtensions

\* Bytes that are not valid UTF-8: fsReadFile(path, 'utf8') and vault.read
\* decode them to the replacement character, the same string that the
\* well-formed bytes ReplacementBytes decode to.
InvalidUtf8 == 3
ReplacementBytes == 1
Utf8Decode(bytes) == IF bytes = InvalidUtf8 THEN ReplacementBytes ELSE bytes
\* a string is named by the bytes that encode it
Utf8Encode(text) == text

\* what the code holds after reading `bytes` from a file at `path`
ReadContent(path, bytes) ==
    IF isBinaryFileType(path) THEN bytes ELSE Utf8Decode(bytes)
\* the bytes that writing `content` to a file at `path` stores
WriteContent(path, content) ==
    IF isBinaryFileType(path) THEN content ELSE Utf8Encode(content)

(***************************************************************************)
(* Path policy (FileSync)                                                  *)
(***************************************************************************)
isIncluded(filePath) ==
    \E i \in DOMAIN settings.includedFolders :
        LET includedFolder == settings.includedFolders[i]
        IN  \/ includedFolder = EmptyPath
            \/ filePath = includedFolder
            \/ StartsWith(filePath, includedFolder \o <<Slash>>)

isExternalIncluded(filePath) ==
    \E i \in DOMAIN settings.externalIncludedFolders :
        LET folderName == Basename(settings.externalIncludedFolders[i])
        IN  \/ filePath = folderName
            \/ StartsWith(filePath, folderName \o <<Slash>>)

\* an exclusion test by plain prefix, with no separator after the folder
isExcludedByPrefix(filePath) ==
    \E i \in DOMAIN settings.excludedFolders :
        StartsWith(filePath, settings.excludedFolders[i])

isExcluded(filePath) ==
    \E i \in DOMAIN settings.excludedFolders :
        LET folder == settings.excludedFolders[i]
        IN  \/ filePath = folder
            \/ StartsWith(filePath, folder \o <<Slash>>)
            \/ StartsWith(filePath, folder \o <<Backslash>>)

shouldSyncFile(filePath) ==
    IF settings.syncMode = "all"
    THEN ~isExcluded(filePath)
    ELSE isIncluded(filePath) \/ isExternalIncluded(filePath)

\* the configured external folders that match vaultPath, in list order
MatchingExternalFolders(vaultPath) ==
    SelectSeq(settings.externalIncludedFolders,
              LAMBDA e : \/ vaultPath = Basename(e)
                         \/ StartsWith(vaultPath, Basename(e) \o <<Slash>>))

NoPath == <<"?">>
\* a getter that falls back to a default root when none is configured
getExternalPathDefault(vaultPath) == Join(Root, vaultPath)
\* getExternalPath: NoPath stands for undefined
getExternalPath(vaultPath) ==
    IF settings.syncFolderPath = EmptyPath THEN NoPath
    ELSE IF MatchingExternalFolders(vaultPath) # << >>
         THEN LET externalFolder == Head(MatchingExternalFolders(vaultPath))
                  folderName == Basename(externalFolder)
                  relativeToParent ==
                      SubSeq(vaultPath, Len(folderName) + 2, Len(vaultPath))
              IN  Join(externalFolder, relativeToParent)
    ELSE Join(settings.syncFolderPath, vaultPath)


(***************************************************************************)
(* The mutable state a handler works on, threaded through the calls it     *)
(* makes.  mw and ew collect the calls the current step issues to the      *)
(* managed and to the external store.                                      *)
(*   by: who issued a call: "user" for an edit made in Obsidian, or the    *)
(*   inbound operation whose managed-store write triggered it.             *)
(*   thrown: an error thrown again by a catch block (of                    *)
(*   syncDirectoryFromExternal or moveDirectoryContents) is propagating.   *)
(*   errors: the entry points whose catch block has logged such an error.  *)
(*   fileWatchers: records [dir, recursive], one per fs.watch watcher.     *)
(***************************************************************************)
World ==
    [vault |-> vault, ext |-> ext, guard |-> guard, timers |-> timers,
     watchQ |-> watchQ, inbound |-> inbound, outbound |-> outbound,
     prompts |-> prompts, mw |-> {}, ew |-> {}, thrown |-> FALSE,
     errors |-> {}, fileWatchers |-> fileWatchers]

\* a catch block that logs the error and throws it again
catchErrorRethrow(w, at) ==
    IF w.thrown THEN [w EXCEPT !.errors = @ \cup {at}] ELSE w

\* the catch block of an entry point: it logs the error and returns
catchError(w, at) ==
    IF w.thrown THEN [w EXCEPT !.thrown = FALSE, !.errors = @ \cup {at}] ELSE w

ExtKind(w, p) == Get(w.ext, p).k
\* getAbstractFileByPath; the vault root always resolves to a folder
VaultGet(w, p) == IF p = EmptyPath THEN DirV ELSE Get(w.vault, p)
ParentExists(w, p) == LastSlash(p) = 0 \/ VaultGet(w, Dirname(p)).k = "dir"

\* the watchers that report a change of the path full: a recursive watcher
\* reports what lies strictly below its directory, a non-recursive one the
\* entries of its directory
Reporting(w, full) ==
    {x \in BagToSet(w.fileWatchers) :
        IF x.recursive THEN full # x.dir /\ Under(full, x.dir)
        ELSE Dirname(full) = x.dir /\ full # x.dir}

\* fs.watch raises the event for the callback of each kind of watcher that
\* reports the path (rec: the callback installed by setupExternalWatcher)
RaiseWatch(w, type, full) ==
    [w EXCEPT !.watchQ = @ \cup {[type |-> type, full |-> full, rec |-> x.recursive] :
                                    x \in Reporting(w, full)}]

LogExt(w, call, p, by) ==
    [w EXCEPT !.ew = @ \cup {[call |-> call, path |-> p, by |-> by]}]

\* fs.mkdirSync(p, {recursive: true})
RECURSIVE FsMkdirP(_, _, _)
FsMkdirP(w, p, by) ==
    IF ExtKind(w, p) # "none" \/ p \notin DOMAIN w.ext THEN w
    ELSE RaiseWatch(
             LogExt([(IF LastSlash(p) = 0 THEN w ELSE FsMkdirP(w, Dirname(p), by))
                        EXCEPT !.ext = Put(@, p, DirV)],
                    "mkdir", p, by),
             "rename", p)

\* fsWriteFile: fails (the caller's catch logs it) when the parent directory
\* is missing or the path is a directory
FsWriteFile(w, p, bytes, by) ==
    IF ExtKind(w, Dirname(p)) # "dir" \/ ExtKind(w, p) = "dir" \/ p \notin DOMAIN w.ext
    THEN w
    ELSE RaiseWatch(LogExt([w EXCEPT !.ext = Put(@, p, FileV(bytes))],
                           "writeFile", p, by),
                    IF ExtKind(w, p) = "none" THEN "rename" ELSE "change", p)

\* removal of p and of everything below it
ExtWithout(e, p) == [q \in DOMAIN e |-> IF Under(q, p) THEN Abs ELSE e[q]]

\* fs.unlinkSync / fs.rmdirSync: fails when nothing is there, and unlink
\* fails on a directory
FsRemove(w, p, call, by) ==
    IF ExtKind(w, p) = "none" \/ (call = "unlink" /\ ExtKind(w, p) = "dir") THEN w
    ELSE RaiseWatch(LogExt([w EXCEPT !.ext = ExtWithout(@, p)], call, p, by),
                    "rename", p)

\* fs.renameSync: moves old and everything below it; fails when the parent
\* of the new path is missing
FsRename(w, old, new, by) ==
    IF ExtKind(w, old) = "none" \/ ExtKind(w, Dirname(new)) # "dir" THEN w
    ELSE RaiseWatch(
             RaiseWatch(
                 LogExt(LogExt([w EXCEPT !.ext =
                                   [q \in DOMAIN w.ext |->
                                       IF Under(q, new)
                                       THEN Get(w.ext, Rebase(q, new, old))
                                       ELSE IF Under(q, old) THEN Abs
                                       ELSE w.ext[q]]],
                               "rename", old, by),
                        "rename", new, by),
                 "rename", old),
             "rename", new)

\* fs.copyFileSync
FsCopyFile(w, from, to, by) ==
    IF ExtKind(w, from) # "file" THEN w
    ELSE RaiseWatch(LogExt([w EXCEPT !.ext = Put(@, to, Get(w.ext, from))],
                           "copyFile", to, by),
                    IF ExtKind(w, to) = "none" THEN "rename" ELSE "change", to)

\* fsReaddir(dir) throws: dir is no directory, or it cannot be listed
Unlistable(w, dir) == ExtKind(w, dir) # "dir" \/ Get(w.ext, dir) = LockedDirV

\* readdir: the names of the entries of directory dir, in order
ExtEntries(w, dir) ==
    SelectSeq(Names, LAMBDA n : ExtKind(w, Join(dir, n)) # "none")

(***************************************************************************)
(* Outbound sync (managed -> external)                                     *)
(***************************************************************************)
\* syncFile up to the point where the content has been read from the vault:
\* the write to the external file lands in a later step (SyncFileWrite)
\* the read of the vault file once the destination directory is there; a
\* path that is not a file makes the read throw
syncFileRead(w, filePath, destPath, by) ==
    IF VaultGet(w, filePath).k # "file" THEN w
    ELSE [w EXCEPT !.outbound = @ \cup
             {[path |-> filePath, dest |-> destPath,
               bytes |-> WriteContent(filePath,
                             ReadContent(filePath, VaultGet(w, filePath).c)),
               by |-> by]}]

syncFileTo(w, filePath, destPath, by) ==
    IF destPath = NoPath THEN w
    ELSE syncFileRead(IF ExtKind(w, Dirname(destPath)) = "none"
                      THEN FsMkdirP(w, Dirname(destPath), by) ELSE w,
                      filePath, destPath, by)

syncFileStart(w, filePath, by) ==
    IF ~shouldSyncFile(filePath) THEN w
    ELSE syncFileTo(w, filePath, getExternalPath(filePath), by)

\* the whole of syncFile, for the callers that await it before going on
syncFileLand(w, o, by) == FsWriteFile(w, o.dest, o.bytes, by)
syncFileFinish(w, suspended, by) ==
    [(IF w.outbound = {} THEN w
      ELSE syncFileLand(w, CHOOSE x \in w.outbound : TRUE, by))
        EXCEPT !.outbound = suspended]
syncFile(w, filePath, by) ==
    syncFileFinish(syncFileStart([w EXCEPT !.outbound = {}], filePath, by),
                   w.outbound, by)

syncFolderTo(w, destPath, by) ==
    IF destPath = NoPath THEN w
    ELSE IF ExtKind(w, destPath) = "none" THEN FsMkdirP(w, destPath, by)
    ELSE w

syncFolder(w, folderPath, by) ==
    IF ~shouldSyncFile(folderPath) THEN w
    ELSE syncFolderTo(w, getExternalPath(folderPath), by)

\* a deletion handler that removes the external counterpart without asking
confirmDeletionUnasked(w, externalPath, isDir) ==
    IF externalPath = NoPath THEN w
    ELSE FsRemove(w, externalPath, IF isDir THEN "rmdir" ELSE "unlink", "confirm")

\* handleFileDeletion: opens the confirmation dialog when the external file exists
\* new ConfirmationModal(...).open() when the external counterpart exists
confirmDeletion(w, externalPath, isDir) ==
    IF externalPath = NoPath THEN w
    ELSE IF ExtKind(w, externalPath) # "none"
         THEN [w EXCEPT !.prompts = @ \cup {[path |-> externalPath, isDir |-> isDir]}]
         ELSE w

handleFileDeletion(w, filePath) ==
    confirmDeletion(w, getExternalPath(filePath), FALSE)

handleFolderDeletion(w, folderPath) ==
    IF ~shouldSyncFile(folderPath) THEN w
    ELSE confirmDeletion(w, getExternalPath(folderPath), TRUE)

\* fs.renameSync and what handleFileRename returns: false from the catch
\* when the rename throws
renameOrFail(w, oldExternalPath, newExternalPath, by) ==
    [w |-> FsRename(w, oldExternalPath, newExternalPath, by),
     renamed |-> ExtKind(w, Dirname(newExternalPath)) = "dir"]

\* handleFileRename: the state after it, and what it returned
renameExternal(w, oldExternalPath, newExternalPath, by) ==
    IF oldExternalPath = NoPath \/ newExternalPath = NoPath
    THEN [w |-> w, renamed |-> FALSE]
    ELSE IF ExtKind(w, oldExternalPath) # "none"
         THEN renameOrFail(IF ExtKind(w, Dirname(newExternalPath)) = "none"
                           THEN FsMkdirP(w, Dirname(newExternalPath), by) ELSE w,
                           oldExternalPath, newExternalPath, by)
         ELSE [w |-> w, renamed |-> FALSE]

handleFileRename(w, oldPath, newPath, by) ==
    renameExternal(w, getExternalPath(oldPath), getExternalPath(newPath), by)

\* moveDirectoryContents: file-by-file copy and delete, recursing into the
\* subdirectories and removing those it emptied
RECURSIVE moveDirectoryContents(_, _, _, _)
RECURSIVE moveEntries(_, _, _, _, _)
RECURSIVE moveEntry(_, _, _, _)
\* after the recursion has returned: a failing readdirSync is caught
removeIfEmpty(w, sourcePath, by) ==
    IF w.thrown \/ Unlistable(w, sourcePath) THEN w
    ELSE IF ExtEntries(w, sourcePath) = << >>
         THEN FsRemove(w, sourcePath, "rmdir", by)
         ELSE w
moveEntry(w, sourcePath, targetPath, by) ==
    IF ExtKind(w, sourcePath) = "dir"
    THEN removeIfEmpty(moveDirectoryContents(w, sourcePath, targetPath, by),
                       sourcePath, by)
    ELSE FsRemove(FsCopyFile(w, sourcePath, targetPath, by),
                  sourcePath, "unlink", by)
moveEntries(w, entries, sourceDir, targetDir, by) ==
    IF entries = << >> \/ w.thrown THEN w
    ELSE moveEntries(moveEntry(w, Join(sourceDir, Head(entries)),
                               Join(targetDir, Head(entries)), by),
                     Tail(entries), sourceDir, targetDir, by)
\* fsReaddir and the loop; the catch logs the error and throws it again
moveInto(w, sourceDir, targetDir, by) ==
    IF Unlistable(w, sourceDir) THEN [w EXCEPT !.thrown = TRUE]
    ELSE moveEntries(w, ExtEntries(w, sourceDir), sourceDir, targetDir, by)
moveDirectoryContents(w, sourceDir, targetDir, by) ==
    moveInto(IF ExtKind(w, targetDir) = "none"
             THEN FsMkdirP(w, targetDir, by) ELSE w,
             sourceDir, targetDir, by)

renameExternalFolder(w, oldExternalPath, newExternalPath, by) ==
    IF oldExternalPath = NoPath \/ newExternalPath = NoPath THEN w
    ELSE IF ExtKind(w, oldExternalPath) # "none"
         THEN IF ExtKind(w, newExternalPath) # "none"
              THEN moveDirectoryContents(w, oldExternalPath, newExternalPath, by)
              ELSE FsRename(w, oldExternalPath, newExternalPath, by)
         ELSE IF ExtKind(w, newExternalPath) = "none"
              THEN FsMkdirP(w, newExternalPath, by)
              ELSE w

handleFolderRename(w, folderPath, oldPath, by) ==
    catchError(renameExternalFolder(w, getExternalPath(oldPath),
                                    getExternalPath(folderPath), by),
               "handleFolderRename")

(***************************************************************************)
(* The vault event handlers (registerFileEvents).  Obsidian calls them     *)
(* when the vault changes, whoever changed it.                             *)
(***************************************************************************)
\* a modify handler that does not look at the sync-on-save flag
OnModifyUnconditional(w, filePath, by) ==
    IF shouldSyncFile(filePath) THEN syncFileStart(w, filePath, by) ELSE w

OnModify(w, filePath, by) ==
    IF settings.syncOnSave /\ shouldSyncFile(filePath)
    THEN syncFileStart(w, filePath, by)
    ELSE w

OnCreate(w, p, by) ==
    IF VaultGet(w, p).k = "file" /\ shouldSyncFile(p) THEN syncFileStart(w, p, by)
    ELSE IF VaultGet(w, p).k = "dir" /\ shouldSyncFile(p) THEN syncFolder(w, p, by)
    ELSE w

OnDelete(w, p, wasFile) ==
    IF wasFile /\ shouldSyncFile(p) THEN handleFileDeletion(w, p)
    ELSE IF ~wasFile /\ shouldSyncFile(p) THEN handleFolderDeletion(w, p)
    ELSE w

\* if (!renamed) await this.fileSync.syncFile(file)
syncUnlessRenamed(r, newPath, by) ==
    IF ~r.renamed THEN syncFileStart(r.w, newPath, by) ELSE r.w

OnRename(w, newPath, oldPath, by) ==
    IF VaultGet(w, newPath).k = "file"
    THEN IF shouldSyncFile(oldPath) /\ shouldSyncFile(newPath)
         THEN syncUnlessRenamed(handleFileRename(w, oldPath, newPath, by),
                                newPath, by)
         ELSE IF shouldSyncFile(oldPath) THEN handleFileDeletion(w, oldPath)
         ELSE IF shouldSyncFile(newPath) THEN syncFileStart(w, newPath, by)
         ELSE w
    ELSE IF shouldSyncFile(oldPath) \/ shouldSyncFile(newPath)
         THEN handleFolderRename(w, newPath, oldPath, by)
         ELSE w


(***************************************************************************)
(* The managed store as the engine uses it (Obsidian's Vault).  Every      *)
(* change triggers the matching vault event handler before the call        *)
(* returns.  LogVault records the calls that inbound sync issues: the      *)
(* guard and the parent folder as they are when the call is issued, and    *)
(* whether the call succeeds (ok).                                         *)
(***************************************************************************)
LogVault(w, call, p, by, ok) ==
    IF by = "user" THEN w
    ELSE [w EXCEPT !.mw = @ \cup
             {[call |-> call, path |-> p, by |-> by, ok |-> ok,
               guard |-> w.guard, parentOk |-> ParentExists(w, p)]}]

\* vault.createFolder: "Folder already exists" when something is there
VaultCreateFolder(w, p, by) ==
    IF VaultGet(w, p).k # "none" \/ p \notin DOMAIN w.vault
    THEN LogVault(w, "createFolder", p, by, FALSE)
    ELSE OnCreate([LogVault(w, "createFolder", p, by, TRUE)
                      EXCEPT !.vault = Put(@, p, DirV)], p, by)

\* vault.create / vault.createBinary: "File already exists" when something is there
VaultCreate(w, p, content, by) ==
    IF VaultGet(w, p).k # "none" \/ p \notin DOMAIN w.vault
    THEN LogVault(w, "create", p, by, FALSE)
    ELSE OnCreate([LogVault(w, "create", p, by, TRUE)
                      EXCEPT !.vault = Put(@, p, FileV(WriteContent(p, content)))],
                  p, by)

\* vault.modify / vault.modifyBinary
VaultModify(w, p, content, by) ==
    IF VaultGet(w, p).k # "file"
    THEN LogVault(w, "modify", p, by, FALSE)
    ELSE OnModify([LogVault(w, "modify", p, by, TRUE)
                      EXCEPT !.vault = Put(@, p, FileV(WriteContent(p, content)))],
                  p, by)

\* the delete events of a set of removed items
RECURSIVE DeleteEvents(_, _, _)
DeleteEvents(w, removed, before) ==
    IF removed = {} THEN w
    ELSE DeleteEvents(
             OnDelete(w, CHOOSE x \in removed : TRUE,
                      Get(before, CHOOSE x \in removed : TRUE).k = "file"),
             removed \ {CHOOSE x \in removed : TRUE}, before)

\* vault.trash(item, true), and a deletion by the user: the item and
\* everything below it leave the vault
VaultTrash(w, p, by) ==
    LET removed == {q \in DOMAIN w.vault : Under(q, p) /\ Get(w.vault, q).k # "none"}
        after == [q \in DOMAIN w.vault |-> IF q \in removed THEN Abs ELSE w.vault[q]]
    IN  IF VaultGet(w, p).k = "none" \/ p = EmptyPath
        THEN LogVault(w, "trash", p, by, FALSE)
        ELSE DeleteEvents([LogVault(w, "trash", p, by, TRUE) EXCEPT !.vault = after],
                          removed, w.vault)

\* a rename by the user: the item and everything below it move, the
\* containing folder first
Shortest(paths) == CHOOSE x \in paths : \A y \in paths : Len(x) <= Len(y)
RECURSIVE RenameEvents(_, _, _, _)
RenameEvents(w, moved, old, new) ==
    IF moved = {} THEN w
    ELSE RenameEvents(OnRename(w, Rebase(Shortest(moved), old, new),
                               Shortest(moved), "user"),
                      moved \ {Shortest(moved)}, old, new)

VaultRename(w, old, new) ==
    LET moved == {q \in DOMAIN w.vault : Under(q, old) /\ Get(w.vault, q).k # "none"}
        after == [q \in DOMAIN w.vault |->
                     IF Under(q, new) THEN Get(w.vault, Rebase(q, new, old))
                     ELSE IF Under(q, old) THEN Abs
                     ELSE w.vault[q]]
    IN  RenameEvents([w EXCEPT !.vault = after], moved, old, new)

(***************************************************************************)
(* Inbound sync (external -> managed)                                      *)
(***************************************************************************)
RECURSIVE ensureDirs(_, _, _, _)
ensureDirs(w, dirs, currentPath, by) ==
    IF dirs = << >> THEN w
    ELSE LET cur == IF currentPath # EmptyPath
                    THEN currentPath \o <<Slash>> \o Head(dirs)
                    ELSE Head(dirs)
         IN  ensureDirs(IF VaultGet(w, cur).k = "none"
                        THEN VaultCreateFolder(w, cur, by)
                        ELSE w,
                        Tail(dirs), cur, by)

ensureVaultDirectory(w, dirPath, by) ==
    ensureDirs(w, SplitPath(dirPath), EmptyPath, by)

\* the content-difference write of one external file into the vault, as
\* syncDirectoryFromExternal performs it for a file entry
syncEntryFile(w, entryPath, vaultPath, by) ==
    LET content == ReadContent(vaultPath, Get(w.ext, entryPath).c)
        existingFile == VaultGet(w, vaultPath)
        parentDir == Dirname(vaultPath)
    IN  IF existingFile.k = "file"
        THEN IF ReadContent(vaultPath, existingFile.c) # content
             THEN VaultModify(w, vaultPath, content, by)
             ELSE w
        ELSE \* a create that fails with "already exists" is retried as a
             \* modify, which applies only if a file is there
             VaultCreate(IF parentDir # EmptyPath /\ parentDir # <<".">>
                         THEN ensureVaultDirectory(w, parentDir, by)
                         ELSE w,
                         vaultPath, content, by)

RECURSIVE syncDirectoryFromExternal(_, _, _, _)
RECURSIVE syncEntries(_, _, _, _, _)
RECURSIVE syncEntry(_, _, _, _)
RECURSIVE syncDirectoryEntries(_, _, _, _)
\* the loop over the entries; an error thrown by the recursion into a
\* subdirectory leaves the loop
syncEntries(w, entries, dirPath, relativeDirPath, by) ==
    IF entries = << >> \/ w.thrown THEN w
    ELSE syncEntries(syncEntry(w, Join(dirPath, Head(entries)),
                               Join(relativeDirPath, Head(entries)), by),
                     Tail(entries), dirPath, relativeDirPath, by)
syncEntry(w, entryPath, entryRelativePath, by) ==
    IF ~shouldSyncFile(entryRelativePath) THEN w
    ELSE IF ExtKind(w, entryPath) = "dir"
         THEN syncDirectoryFromExternal(w, entryPath, entryRelativePath, by)
    ELSE syncEntryFile(w, entryPath, entryRelativePath, by)
\* fsReaddir and the loop over the entries; the error of a failing readdir
\* is logged and thrown again by the catch of syncDirectoryFromExternal
syncDirectoryEntries(w, dirPath, relativeDirPath, by) ==
    IF Unlistable(w, dirPath) THEN [w EXCEPT !.thrown = TRUE]
    ELSE syncEntries(w, ExtEntries(w, dirPath), dirPath, relativeDirPath, by)
syncDirectoryFromExternal(w, dirPath, relativeDirPath, by) ==
    IF ~shouldSyncFile(relativeDirPath) THEN w
    ELSE syncDirectoryEntries(IF VaultGet(w, relativeDirPath).k = "none"
                              THEN ensureVaultDirectory(w, relativeDirPath, by)
                              ELSE w,
                              dirPath, relativeDirPath, by)

RECURSIVE scanAndCreateAllDirectories(_, _, _, _)
RECURSIVE scanEntries(_, _, _, _, _)
RECURSIVE scanDirectoryEntries(_, _, _, _)
scanEntries(w, entries, basePath, relativePath, by) ==
    IF entries = << >> THEN w
    ELSE scanEntries(
             IF ExtKind(w, Join(basePath, Head(entries))) = "dir"
             THEN scanAndCreateAllDirectories(w, Join(basePath, Head(entries)),
                                              Join(relativePath, Head(entries)), by)
             ELSE w,
             Tail(entries), basePath, relativePath, by)
\* fsReaddir and the loop over the entries; the catch of
\* scanAndCreateAllDirectories swallows the error of a failing readdir
scanDirectoryEntries(w, basePath, relativePath, by) ==
    IF Unlistable(w, basePath) THEN w
    ELSE scanEntries(w, ExtEntries(w, basePath), basePath, relativePath, by)
scanAndCreateAllDirectories(w, basePath, relativePath, by) ==
    IF ExtKind(w, basePath) = "none" THEN w
    ELSE IF relativePath # EmptyPath /\ ~shouldSyncFile(relativePath) THEN w
    ELSE scanDirectoryEntries(
             IF relativePath # EmptyPath /\ VaultGet(w, relativePath).k = "none"
             THEN ensureVaultDirectory(w, relativePath, by)
             ELSE w,
             basePath, relativePath, by)

handleExternalDirectoryCreation(w, fullPath, relativePath) ==
    IF ~shouldSyncFile(relativePath) THEN w
    ELSE catchError(syncDirectoryFromExternal(
                        IF VaultGet(w, relativePath).k = "none"
                        THEN ensureVaultDirectory(w, relativePath, "dirCreation")
                        ELSE w,
                        fullPath, relativePath, "dirCreation"),
                    "handleExternalDirectoryCreation")

RECURSIVE TrashAll(_, _, _)
TrashAll(w, items, by) ==
    IF items = {} THEN w
    ELSE TrashAll(VaultTrash(w, CHOOSE x \in items : TRUE, by),
                  items \ {CHOOSE x \in items : TRUE}, by)

\* moveFolderToTrash: every file of the folder, then the folder itself
moveFolderToTrash(w, folderPath, by) ==
    IF VaultGet(w, folderPath).k # "dir" THEN w
    ELSE LET notesToTrash == {q \in DOMAIN w.vault : /\ Under(q, folderPath)
                                                   /\ Get(w.vault, q).k = "file"}
         IN  VaultTrash(TrashAll(w, notesToTrash, by), folderPath, by)

handleExternalDirectoryDeletion(w, relativePath) ==
    IF ~shouldSyncFile(relativePath) THEN w
    ELSE IF VaultGet(w, relativePath).k = "dir"
         THEN moveFolderToTrash(w, relativePath, "dirDeletion")
         ELSE w

\* a removal that deletes for good (vault.delete) what it would have trashed
Permanently(r) ==
    [r EXCEPT !.mw = {[m EXCEPT !.call = IF @ = "trash" THEN "delete" ELSE @] : m \in @}]
moveFileToTrashPermanently(w, filePath, by) ==
    IF VaultGet(w, filePath).k # "none"
    THEN Permanently(VaultTrash(w, filePath, by)) ELSE w

moveFileToTrash(w, filePath, by) ==
    IF VaultGet(w, filePath).k # "none" THEN VaultTrash(w, filePath, by) ELSE w

SettleTimer == [kind |-> "settle", full |-> EmptyPath, rel |-> EmptyPath]
DebounceTimer(fullPath, relativePath) ==
    [kind |-> "debounce", full |-> fullPath, rel |-> relativePath]
\* a setTimeout whose callback is never scheduled
SetTimeoutDropped(w, t) == w
SetTimeout(w, t) == [w EXCEPT !.timers = @ (+) SetToBag({t})]

\* handleExternalFileDeletion: the guard is set on entry and a timer that
\* clears it is scheduled on exit
handleExternalFileDeletion(w, relativePath) ==
    SetTimeout(IF shouldSyncFile(relativePath)
                  /\ VaultGet(w, relativePath).k = "file"
               THEN moveFileToTrash([w EXCEPT !.guard = TRUE], relativePath,
                                    "deletion")
               ELSE [w EXCEPT !.guard = TRUE],
               SettleTimer)


(***************************************************************************)
(* handleExternalFileChange, in the steps its awaits cut it into           *)
(***************************************************************************)
\* the external folders whose path is a prefix of fullPath, in list order
ContainingExternalFolders(fullPath) ==
    SelectSeq(settings.externalIncludedFolders, LAMBDA e : StartsWith(fullPath, e))

\* the vault path handleExternalFileChange resolves for an external file
ResolveVaultPath(fullPath, relativePath) ==
    IF ContainingExternalFolders(fullPath) = << >> THEN relativePath
    ELSE LET externalFolder == Head(ContainingExternalFolders(fullPath))
             relativeToExternal == PathRelative(externalFolder, fullPath)
         IN  Join(Basename(externalFolder), relativeToExternal)

\* entry: set the guard, apply the policy, look the managed file up and
\* read the external file; the handler then suspends (vault.read, or the
\* createFolder calls of ensureVaultDirectory).  When fsReadFile throws, the
\* finally block clears the guard.
handleExternalFileChangeStart(w, fullPath, relativePath) ==
    LET w0 == [w EXCEPT !.guard = TRUE]
        vaultPath == ResolveVaultPath(fullPath, relativePath)
    IN  IF ~shouldSyncFile(relativePath) \/ ExtKind(w0, fullPath) # "file"
        THEN [w0 EXCEPT !.guard = FALSE]
        ELSE [w0 EXCEPT !.inbound = @ \cup
                 {[full |-> fullPath, rel |-> relativePath, vaultPath |-> vaultPath,
                   existing |-> VaultGet(w0, vaultPath).k = "file",
                   content |-> ReadContent(vaultPath, Get(w0.ext, fullPath).c),
                   phase |-> "apply"]}]

\* compare and write; the finally block clears the guard unless the create
\* failed with "already exists" and the handler waits to retry
\* a handler that writes the external content without comparing
modifyAlways(w, vaultPath, content, by) ==
    IF VaultGet(w, vaultPath).k = "file"
    THEN VaultModify(w, vaultPath, content, by)
    ELSE w

\* read the managed file that is there and modify it if it differs
modifyIfDifferent(w, vaultPath, content, by) ==
    IF /\ VaultGet(w, vaultPath).k = "file"
       /\ ReadContent(vaultPath, VaultGet(w, vaultPath).c) # content
    THEN VaultModify(w, vaultPath, content, by)
    ELSE w

\* a handler that gives up when its create fails
createOrDrop(w, i) ==
    [VaultCreate(w, i.vaultPath, i.content, "change") EXCEPT !.guard = FALSE]

\* vault.create and its catch: "already exists" leaves the handler waiting
\* for the retry delay, with the guard still set
createOrWait(w, i) ==
    IF VaultGet(w, i.vaultPath).k = "none"
    THEN [VaultCreate(w, i.vaultPath, i.content, "change") EXCEPT !.guard = FALSE]
    ELSE [VaultCreate(w, i.vaultPath, i.content, "change")
             EXCEPT !.inbound = @ \cup {[i EXCEPT !.phase = "retry"]}]

handleExternalFileChangeApply(w, i) ==
    IF i.existing
    THEN [modifyIfDifferent([w EXCEPT !.inbound = @ \ {i}], i.vaultPath,
                            i.content, "change")
             EXCEPT !.guard = FALSE]
    ELSE createOrWait(IF Dirname(i.vaultPath) # EmptyPath
                         /\ Dirname(i.vaultPath) # <<".">>
                      THEN ensureVaultDirectory([w EXCEPT !.inbound = @ \ {i}],
                                                Dirname(i.vaultPath), "change")
                      ELSE [w EXCEPT !.inbound = @ \ {i}],
                      i)

\* after the retry delay: modify the file that is there now, if it differs
handleExternalFileChangeRetry(w, i) ==
    [modifyIfDifferent([w EXCEPT !.inbound = @ \ {i}], i.vaultPath, i.content,
                       "change")
        EXCEPT !.guard = FALSE]

(***************************************************************************)
(* The fs.watch callbacks (DirectorySync)                                  *)
(***************************************************************************)
\* a getter that reports the guard as never held
getProcessingExternalChangeNever(w) == FALSE
getProcessingExternalChange(w) == w.guard

\* isDirectoryWatched: always false in the code
isDirectoryWatched(w, dirPath) == FALSE

\* watchDirectory: a non-recursive watcher on dirPath is pushed, then one on
\* each subdirectory that is not excluded; a failing readdirSync is caught
RECURSIVE watchDirectory(_, _)
RECURSIVE watchSubdirectories(_, _, _)
watchSubdirectories(w, entries, dirPath) ==
    IF entries = << >> THEN w
    ELSE watchSubdirectories(
             IF /\ ExtKind(w, Join(dirPath, Head(entries))) = "dir"
                /\ ~isExcluded(PathRelative(settings.syncFolderPath,
                                            Join(dirPath, Head(entries))))
                /\ ~isDirectoryWatched(w, Join(dirPath, Head(entries)))
             THEN watchDirectory(w, Join(dirPath, Head(entries)))
             ELSE w,
             Tail(entries), dirPath)
watchDirectory(w, dirPath) ==
    watchSubdirectories(
        [w EXCEPT !.fileWatchers =
                      @ (+) SetToBag({[dir |-> dirPath, recursive |-> FALSE]})],
        IF Unlistable(w, dirPath) THEN << >> ELSE ExtEntries(w, dirPath),
        dirPath)

setupFallbackWatcher(w) == watchDirectory(w, settings.syncFolderPath)

\* a close that leaves the watchers in place
closeFileWatchersNone(w) == w

\* closeFileWatchers: a closed watcher delivers no event any more
closeFileWatchers(w) == [w EXCEPT !.fileWatchers = EmptyBag, !.watchQ = {}]

\* setupExternalWatcher: the watchers are closed; fs.watch on the root with
\* recursive: true either succeeds or throws, and then the fallback is set up
watchRoot(w) ==
    IF settings.syncFolderPath = EmptyPath
       \/ ExtKind(w, settings.syncFolderPath) = "none"
    THEN w
    ELSE IF watchMode = "recursive"
         THEN [w EXCEPT !.fileWatchers =
                  @ (+) SetToBag({[dir |-> settings.syncFolderPath,
                                   recursive |-> TRUE]})]
         ELSE setupFallbackWatcher(w)
setupExternalWatcher(w) == watchRoot(closeFileWatchers(w))

\* the callback of the recursive watcher, from the result of fsStat on
recursiveAfterStat(w, eventType, fullPath) ==
    LET filename == PathRelative(settings.syncFolderPath, fullPath)
        dirPath == Dirname(fullPath)
    IN  IF ExtKind(w, fullPath) = "dir"
        THEN IF eventType = "rename"
             THEN handleExternalDirectoryCreation(
                      IF isDirectoryWatched(w, fullPath) THEN w
                      ELSE watchDirectory(w, fullPath),
                      fullPath, filename)
             ELSE IF isDirectoryWatched(w, fullPath) THEN w
                  ELSE watchDirectory(w, fullPath)
        ELSE IF ExtKind(w, fullPath) = "file"
             THEN SetTimeout(w, DebounceTimer(fullPath, filename))
        ELSE IF eventType # "rename" THEN w
        ELSE IF ExtKind(w, dirPath) = "dir" /\ VaultGet(w, filename).k = "dir"
             THEN handleExternalDirectoryDeletion(w, filename)
        ELSE handleExternalFileDeletion(w, filename)

\* whether a callback goes on to its fsStat: not while the guard is held,
\* and not for an excluded path
passesToStat(w, fullPath) ==
    /\ ~getProcessingExternalChange(w)
    /\ ~isExcluded(PathRelative(settings.syncFolderPath, fullPath))

\* setupExternalWatcher: the callback of the recursive watcher on the root
recursiveWatchCallback(w, eventType, fullPath) ==
    IF passesToStat(w, fullPath)
    THEN recursiveAfterStat(w, eventType, fullPath)
    ELSE w

\* the callback of a non-recursive watcher, from the result of fsStat on
fallbackAfterStat(w, eventType, fullPath) ==
    LET relativePath == PathRelative(settings.syncFolderPath, fullPath)
    IN  IF ExtKind(w, fullPath) = "dir"
        THEN IF isDirectoryWatched(w, fullPath) THEN w
             ELSE watchDirectory(w, fullPath)
        ELSE IF ExtKind(w, fullPath) = "file"
             THEN SetTimeout(w, DebounceTimer(fullPath, relativePath))
        ELSE IF eventType = "rename"
             THEN handleExternalFileDeletion(w, relativePath)
        ELSE w

\* watchDirectory: the callback of the non-recursive watcher on a directory
fallbackWatchCallback(w, eventType, fullPath) ==
    IF passesToStat(w, fullPath)
    THEN fallbackAfterStat(w, eventType, fullPath)
    ELSE w

(***************************************************************************)
(* Full synchronisations                                                   *)
(***************************************************************************)
\* the relative path syncAllExternalDirectories walks an external folder under
ExternalFolderRelative(externalFolder) ==
    IF PathRelative(settings.syncFolderPath, externalFolder) # EmptyPath
    THEN PathRelative(settings.syncFolderPath, externalFolder)
    ELSE Basename(externalFolder)

\* Phase 1 of syncAllExternalDirectories: the directory structure
RECURSIVE scanExternalFolders(_, _)
scanExternalFolders(w, folders) ==
    IF folders = << >> THEN w
    ELSE scanExternalFolders(
             IF ExtKind(w, Head(folders)) # "none"
             THEN scanAndCreateAllDirectories(w, Head(folders),
                      ExternalFolderRelative(Head(folders)), "fullSync")
             ELSE w,
             Tail(folders))

\* a single pass that creates folders and files together
syncAllSinglePass(w) ==
    syncDirectoryFromExternal(w, settings.syncFolderPath, EmptyPath, "fullSync")

syncAllPhase1(w) ==
    scanExternalFolders(
        scanAndCreateAllDirectories(w, settings.syncFolderPath, EmptyPath, "fullSync"),
        settings.externalIncludedFolders)

\* Phase 2 of syncAllExternalDirectories: the files
RECURSIVE syncExternalFolders(_, _)
syncExternalFolders(w, folders) ==
    IF folders = << >> \/ w.thrown THEN w
    ELSE syncExternalFolders(
             IF ExtKind(w, Head(folders)) # "none"
             THEN syncDirectoryFromExternal(w, Head(folders),
                      ExternalFolderRelative(Head(folders)), "fullSync")
             ELSE w,
             Tail(folders))

syncAllPhase2(w) ==
    catchError(syncExternalFolders(
                   syncDirectoryFromExternal(w, settings.syncFolderPath, EmptyPath,
                                             "fullSync"),
                   settings.externalIncludedFolders),
               "syncAllExternalDirectories")

\* syncAllFiles: every participating vault file, one after the other
RECURSIVE syncFiles(_, _)
syncFiles(w, files) ==
    IF files = {} THEN w
    ELSE syncFiles(IF shouldSyncFile(Shortest(files))
                   THEN syncFile(w, Shortest(files), "user") ELSE w,
                   files \ {Shortest(files)})

\* this.app.vault.getFiles() and the loop over them
syncVaultFiles(w) ==
    syncFiles(w, {p \in DOMAIN w.vault : Get(w.vault, p).k = "file"})

syncAllFiles(w) ==
    IF settings.syncFolderPath = EmptyPath THEN w
    ELSE syncVaultFiles(IF ExtKind(w, settings.syncFolderPath) = "none"
                        THEN FsMkdirP(w, settings.syncFolderPath, "user") ELSE w)


(***************************************************************************)
(* Initial states                                                          *)
(***************************************************************************)
BaseSettings ==
    [syncFolderPath |-> Root, syncOnSave |-> TRUE, syncMode |-> "all",
     excludedFolders |-> << >>, includedFolders |-> << >>,
     externalIncludedFolders |-> << >>]

\* the configurations a behaviour starts from (the settings tab edits them)
InitSettings ==
    { BaseSettings,
      [BaseSettings EXCEPT !.excludedFolders = <<pAB>>],
      [BaseSettings EXCEPT !.syncMode = "include", !.includedFolders = <<pAB>>],
      [BaseSettings EXCEPT !.syncMode = "include", !.includedFolders = <<pA>>],
      [BaseSettings EXCEPT !.externalIncludedFolders = <<Join(Root, pAB)>>] }

EmptyStore(paths) == [p \in paths |-> Abs]
\* a/ with the file a/f and the empty folder a/b/
TreeStore(prefix, paths) ==
    [p \in paths |->
        IF p \in {Join(prefix, pA), Join(prefix, pAB)} THEN DirV
        ELSE IF p = Join(prefix, pAF) THEN FileV(1)
        ELSE IF p = prefix /\ prefix # EmptyPath THEN DirV
        ELSE Abs]

\* an external file b where the vault holds a folder b
ClashStores ==
    <<Put(Put(EmptyStore(ExtPaths), Root, DirV), Join(Root, pB), FileV(1)),
      Put(EmptyStore(RelPaths), pB, DirV)>>

\* the stores at load: mirrored, with the tree on one side only, or with
\* a file on one side named like a folder on the other
InitStores ==
    { <<TreeStore(Root, ExtPaths), TreeStore(EmptyPath, RelPaths)>>,
      <<TreeStore(Root, ExtPaths), EmptyStore(RelPaths)>>,
      <<Put(EmptyStore(ExtPaths), Root, DirV), TreeStore(EmptyPath, RelPaths)>>,
      ClashStores }

\* the syncFromExternal invocation: where it is (pc), and what is recorded
\* of it to state the properties of a run:
\*   calls   the managed-store calls the run has issued
\*   quiet   no step outside the run has changed a store since it started
\*   repeat  the run started after a completed run with both stores unchanged since
\*   settled a run has completed and both stores are unchanged since
IdleSync ==
    [pc |-> "idle", calls |-> 0, quiet |-> FALSE, repeat |-> FALSE,
     settled |-> FALSE]

\* onload: setupExternalWatcher on the external store as it is then
WatchersAtLoad ==
    setupExternalWatcher([ext |-> ext, watchQ |-> {},
                          fileWatchers |-> EmptyBag]).fileWatchers

\* closed: the number of watchers the last saveSettings call has closed
Running == [saving |-> FALSE, unloaded |-> FALSE, closed |-> 0]
InitLog == [op |-> "init", mw |-> {}, ew |-> {}, errors |-> {}, uncaught |-> FALSE]

Init ==
    /\ settings \in InitSettings
    /\ watchMode \in {"recursive", "fallback"}
    /\ \E s \in InitStores : ext = s[1] /\ vault = s[2]
    /\ guard = FALSE
    /\ timers = EmptyBag
    /\ watchQ = {}
    /\ inbound = {}
    /\ outbound = {}
    /\ prompts = {}
    /\ fullSync = IdleSync
    /\ budget = [env |-> MaxEnvSteps, sync |-> MaxFullSyncs]
    /\ log = InitLog
    /\ fileWatchers = WatchersAtLoad
    /\ statQ = {}
    /\ lifecycle = Running

(***************************************************************************)
(* Steps                                                                   *)
(***************************************************************************)
Bounded(w) ==
    /\ Cardinality(w.inbound) <= MaxInflight
    /\ Cardinality(w.outbound) <= MaxInflight
    /\ BagCardinality(w.timers) <= MaxTimers
    /\ BagCardinality(w.fileWatchers) <= MaxWatchers

\* the engine state after a step that ends in w
CommitWatch(w, op) ==
    /\ Bounded(w)
    /\ vault' = w.vault
    /\ ext' = w.ext
    /\ guard' = w.guard
    /\ timers' = w.timers
    /\ watchQ' = w.watchQ
    /\ inbound' = w.inbound
    /\ outbound' = w.outbound
    /\ prompts' = w.prompts
    /\ log' = [op |-> op, mw |-> w.mw, ew |-> w.ew, errors |-> w.errors,
               uncaught |-> w.thrown]
    /\ fileWatchers' = w.fileWatchers
    /\ UNCHANGED watchMode

Commit(w, op) == CommitWatch(w, op) /\ UNCHANGED <<settings, statQ, lifecycle>>

\* a step outside the full sync: it disturbs the run in progress, and ends
\* the quiet period after the last run, if it changes a store
Outside(w) ==
    LET same == w.vault = vault /\ w.ext = ext
    IN  fullSync' = [fullSync EXCEPT !.quiet = @ /\ same,
                                     !.settled = @ /\ same]

\* the end of a step outside the full sync
Finish(w, op) == Commit(w, op) /\ Outside(w)
FinishWatch(w, op) == CommitWatch(w, op) /\ Outside(w)

EnvStep == budget.env > 0 /\ budget' = [budget EXCEPT !.env = @ - 1]

---------------------------------------------------------------------------
\* the user edits the vault in Obsidian

UserCreateFile(p, c) ==
    /\ EnvStep
    /\ p \in FilePaths /\ Get(vault, p).k = "none" /\ ParentExists(World, p)
    /\ Finish(OnCreate([World EXCEPT !.vault = Put(@, p, FileV(c))], p, "user"),
              "UserCreateFile")

UserModifyFile(p, c) ==
    /\ EnvStep
    /\ Get(vault, p).k = "file"
    /\ Finish(OnModify([World EXCEPT !.vault = Put(@, p, FileV(c))], p, "user"),
              "UserModifyFile")

UserCreateFolder(p) ==
    /\ EnvStep
    /\ p \in DirPaths /\ Get(vault, p).k = "none" /\ ParentExists(World, p)
    /\ Finish(OnCreate([World EXCEPT !.vault = Put(@, p, DirV)], p, "user"),
              "UserCreateFolder")

UserDelete(p) ==
    /\ EnvStep
    /\ Get(vault, p).k # "none"
    /\ Finish(VaultTrash(World, p, "user"),
              "UserDelete")

\* the renames that keep every moved item inside RelPaths
RenamePairs ==
    { <<pAF, pABF>>, <<pABF, pAF>>, <<pAF, pBF>>, <<pBF, pAF>>,
      <<pABF, pBF>>, <<pBF, pABF>>, <<pAB, pB>>, <<pB, pAB>> }

UserRename(old, new) ==
    /\ EnvStep
    /\ Get(vault, old).k # "none" /\ Get(vault, new).k = "none"
    /\ ParentExists(World, new)
    /\ Finish(VaultRename(World, old, new),
              "UserRename")

\* the user runs "Synchroniser maintenant", or the sync interval elapses
SyncAllFiles ==
    /\ EnvStep
    /\ Finish(syncAllFiles(World),
              "SyncAllFiles")

\* a confirmation that removes nothing
confirmedRemovalNone(w, pr, rmFile) == w

\* the confirmed removal: fs.rmdirSync(path, {recursive: true}) for a folder
\* prompt, fs.unlinkSync for a file prompt.  Whether the recursive rmdir
\* removes a path that is a file depends on the Node version (rmFile).
confirmedRemoval(w, pr, rmFile) ==
    IF pr.isDir /\ ExtKind(w, pr.path) = "file" /\ ~rmFile THEN w
    ELSE FsRemove(w, pr.path, IF pr.isDir THEN "rmdir" ELSE "unlink", "confirm")

\* the user answers a confirmation dialog
ConfirmYes(pr) ==
    /\ pr \in prompts
    /\ \E rmFile \in BOOLEAN :
          Finish(confirmedRemoval([World EXCEPT !.prompts = @ \ {pr}], pr, rmFile),
                 "ConfirmYes")
    /\ UNCHANGED budget

ConfirmNo(pr) ==
    /\ pr \in prompts
    /\ Finish([World EXCEPT !.prompts = @ \ {pr}],
              "ConfirmNo")
    /\ UNCHANGED budget

---------------------------------------------------------------------------
\* another program edits the external directory

ExtWrite(p, c) ==
    /\ EnvStep
    /\ p \in FilePaths
    /\ LastSlash(p) = 0 \/ Get(ext, Join(Root, Dirname(p))).k = "dir"
    /\ Get(ext, Join(Root, p)) # FileV(c)
    /\ LET full == Join(Root, p)
           type == IF Get(ext, full).k = "none" THEN "rename" ELSE "change"
       IN  Finish(RaiseWatch([World EXCEPT !.ext = Put(@, full, FileV(c))],
                             type, full),
                  "ExtWrite")

ExtMkdir(p) ==
    /\ EnvStep
    /\ p \in DirPaths /\ Get(ext, Join(Root, p)).k = "none"
    /\ LastSlash(p) = 0 \/ Get(ext, Join(Root, Dirname(p))).k = "dir"
    /\ Finish(RaiseWatch([World EXCEPT !.ext = Put(@, Join(Root, p), DirV)],
                          "rename", Join(Root, p)),
              "ExtMkdir")

ExtRemove(p) ==
    /\ EnvStep
    /\ Get(ext, Join(Root, p)).k # "none"
    /\ Finish(RaiseWatch([World EXCEPT !.ext = ExtWithout(@, Join(Root, p))],
                          "rename", Join(Root, p)),
              "ExtRemove")

---------------------------------------------------------------------------
\* the engine

\* fs.watch delivers a raw event to the recursive watcher's callback
RecursiveWatchEvent(e) ==
    /\ e \in watchQ /\ e.rec
    /\ Finish(recursiveWatchCallback([World EXCEPT !.watchQ = @ \ {e}],
                                       e.type, e.full),
              "RecursiveWatchEvent")
    /\ UNCHANGED budget

\* fs.watch delivers a raw event to a per-directory watcher's callback
FallbackWatchEvent(e) ==
    /\ e \in watchQ /\ ~e.rec
    /\ Finish(fallbackWatchCallback([World EXCEPT !.watchQ = @ \ {e}],
                                      e.type, e.full),
              "FallbackWatchEvent")
    /\ UNCHANGED budget

\* a debounce timer fires: handleExternalFileChange starts
DebounceFires(t) ==
    /\ BagIn(t, timers) /\ t.kind = "debounce"
    /\ Finish(handleExternalFileChangeStart(
                    [World EXCEPT !.timers = @ (-) SetToBag({t})], t.full, t.rel),
              "DebounceFires")
    /\ UNCHANGED budget

FileChangeApply(i) ==
    /\ i \in inbound /\ i.phase = "apply"
    /\ Finish(handleExternalFileChangeApply(World, i),
              "FileChangeApply")
    /\ UNCHANGED budget

FileChangeRetry(i) ==
    /\ i \in inbound /\ i.phase = "retry"
    /\ Finish(handleExternalFileChangeRetry(World, i),
              "FileChangeRetry")
    /\ UNCHANGED budget

\* a settle timer fires: the guard is cleared
SettleFires ==
    /\ BagIn(SettleTimer, timers)
    /\ Finish([World EXCEPT !.timers = @ (-) SetToBag({SettleTimer}),
                              !.guard = FALSE],
              "SettleFires")
    /\ UNCHANGED budget

\* the fsWriteFile of a suspended syncFile lands
SyncFileWrite(o) ==
    /\ o \in outbound
    /\ Finish(FsWriteFile([World EXCEPT !.outbound = @ \ {o}], o.dest, o.bytes, o.by),
              "SyncFileWrite")
    /\ UNCHANGED budget

FinishPhase1(w) ==
    /\ Commit(w, "SyncFromExternalPhase1")
    /\ fullSync' = [pc |-> "phase2", calls |-> Cardinality(w.mw), quiet |-> TRUE,
                    repeat |-> fullSync.settled, settled |-> FALSE]

FinishPhase2(w) ==
    /\ Commit(w, "SyncFromExternalPhase2")
    /\ fullSync' = [fullSync EXCEPT !.pc = "idle",
                                    !.calls = @ + Cardinality(w.mw),
                                    !.settled = fullSync.quiet]

\* syncFromExternal starts (at load, or by command): it sets the guard and
\* runs Phase 1 of syncAllExternalDirectories
SyncFromExternalPhase1 ==
    /\ budget.sync > 0 /\ fullSync.pc = "idle"
    /\ budget' = [budget EXCEPT !.sync = @ - 1]
    /\ IF settings.syncFolderPath = EmptyPath
          \/ Get(ext, settings.syncFolderPath).k = "none"
       THEN /\ Commit(World, "SyncFromExternalSkipped")
            /\ UNCHANGED fullSync
       ELSE FinishPhase1(syncAllPhase1([World EXCEPT !.guard = TRUE]))

\* Phase 2, and the finally block that schedules the settle timer
SyncFromExternalPhase2 ==
    /\ fullSync.pc = "phase2"
    /\ \E w \in {syncAllPhase2(World)} : FinishPhase2(SetTimeout(w, SettleTimer))
    /\ UNCHANGED budget

Next ==
    \/ \E p \in FilePaths, c \in Contents : UserCreateFile(p, c)
    \/ \E p \in FilePaths, c \in Contents : UserModifyFile(p, c)
    \/ \E p \in DirPaths : UserCreateFolder(p)
    \/ \E p \in RelPaths : UserDelete(p)
    \/ \E pair \in RenamePairs : UserRename(pair[1], pair[2])
    \/ SyncAllFiles
    \/ \E pr \in prompts : ConfirmYes(pr)
    \/ \E pr \in prompts : ConfirmNo(pr)
    \/ \E p \in FilePaths, c \in Contents : ExtWrite(p, c)
    \/ \E p \in DirPaths : ExtMkdir(p)
    \/ \E p \in RelPaths : ExtRemove(p)
    \/ \E e \in watchQ : RecursiveWatchEvent(e)
    \/ \E e \in watchQ : FallbackWatchEvent(e)
    \/ \E t \in BagToSet(timers) : DebounceFires(t)
    \/ \E i \in inbound : FileChangeApply(i)
    \/ \E i \in inbound : FileChangeRetry(i)
    \/ SettleFires
    \/ \E o \in outbound : SyncFileWrite(o)
    \/ SyncFromExternalPhase1
    \/ SyncFromExternalPhase2

Spec == Init /\ [][Next]_vars

(***************************************************************************)
(* Properties                                                              *)
(***************************************************************************)
\* the inbound operations, as the `by` of the calls they issue
InboundOps == {"change", "deletion", "dirCreation", "dirDeletion", "fullSync"}
WatchSteps == {"RecursiveWatchEvent", "FallbackWatchEvent"}

\* C1: for every managed path p that the policy excludes (shouldSyncFile(p)
\* is false), no step of the engine creates, writes, renames or deletes the
\* external counterpart getExternalPath(p), and no inbound step creates,
\* modifies or trashes the managed item p.
C1_ExcludedNeverTouched ==
    \A p \in RelPaths :
        ~shouldSyncFile(p) =>
            /\ \A c \in log.ew : c.path # getExternalPath(p)
            /\ \A c \in log.mw : c.ok => c.path # p

\* C2: a raw watch event delivered to either watcher callback while the
\* guard is held is dropped: the step removes the event and changes nothing
\* else, so no debounce timer is scheduled, no managed-store call is issued,
\* and nothing of the event is left that a later step could act on.
C2_GuardedEventDiscarded ==
    [][(guard /\ log'.op \in WatchSteps) =>
          /\ UNCHANGED <<vault, ext, guard, timers, inbound, outbound, prompts>>
          /\ log'.mw = {} /\ log'.ew = {}
          /\ watchQ' \subseteq watchQ /\ watchQ' # watchQ]_vars

\* C2 witness: a watch event has just been delivered while a full inbound
\* sync was between its two phases: the guard was held (no handler was
\* suspended and no timer pending that could have cleared and re-set it).
C2_Witness ==
    /\ log.op \in WatchSteps
    /\ guard
    /\ fullSync.pc = "phase2"
    /\ timers = EmptyBag
    /\ inbound = {}

\* C3: a managed-store write made by inbound sync causes no write to the
\* external store: every external call the engine issues stems from an edit
\* of the user (or the answer to a confirmation dialog), never from the
\* vault event of an inbound create or modify.
C3_InboundWriteNoOutbound ==
    \A c \in log.ew : c.by \notin InboundOps

\* C4: the guard is held for as long as an outbound write to the external
\* store is in progress, so a watch event delivered meanwhile is dropped.
C4_GuardDuringOutbound ==
    outbound # {} => guard

\* C5: every managed-store call issued by inbound sync is issued while the
\* guard is held.
C5_InboundWritesGuarded ==
    \A c \in log.mw : c.guard

\* C6: the guard goes from held to clear only in a step of the settle
\* timer, never in the step in which an inbound operation completes.
C6_ClearedOnlyBySettle ==
    [][(guard /\ ~guard') => log'.op = "SettleFires"]_vars

\* a full inbound sync that started after a completed run, with neither
\* store changed in between or since
SecondRun == fullSync.repeat /\ fullSync.quiet

\* C7: a full inbound sync that runs to completion after a completed run,
\* with neither store changed in between or meanwhile, issues no
\* managed-store call at all.
C7_SecondRunIssuesNothing ==
    (fullSync.pc = "idle" /\ SecondRun) => fullSync.calls = 0

\* the state right after a full inbound sync that no other step disturbed
SyncCompleted == log.op = "SyncFromExternalPhase2" /\ fullSync.quiet

\* C8: after a completed full inbound sync every external directory d that
\* the policy accepts has a managed folder at d, and for an empty d no file
\* create or modify call was issued below d.
C8_DirectoriesMirrored ==
    SyncCompleted =>
        \A d \in DirPaths :
            (Get(ext, Join(Root, d)).k = "dir" /\ shouldSyncFile(d)) =>
                /\ Get(vault, d).k = "dir"
                /\ (\A q \in RelPaths : Under(q, d) /\ q # d
                                            => Get(ext, Join(Root, q)).k = "none")
                   => \A c \in log.mw : c.call \in {"create", "modify"}
                                            => ~Under(c.path, d)

\* C9: after a completed full inbound sync every regular file of the
\* external root whose relative path p the policy accepts has a managed
\* file at p with the same content.
C9_FilesMirrored ==
    SyncCompleted =>
        \A p \in FilePaths :
            (Get(ext, Join(Root, p)).k = "file" /\ shouldSyncFile(p)) =>
                Get(vault, p) = Get(ext, Join(Root, p))

\* C10: Phase 1 of a full inbound sync issues folder creations only, and
\* every file creation of the run is issued when its parent folder exists.
C10_StructureBeforeContent ==
    /\ log.op = "SyncFromExternalPhase1"
          => \A c \in log.mw : c.call = "createFolder"
    /\ log.op \in {"SyncFromExternalPhase1", "SyncFromExternalPhase2"}
          => \A c \in log.mw : c.call = "create" => c.parentOk

\* C10 witness: Phase 2 has just created a file inside a folder, after a
\* Phase 1 that had to create folders.
C10_Witness ==
    /\ log.op = "SyncFromExternalPhase2"
    /\ fullSync.calls > Cardinality(log.mw)
    /\ \E c \in log.mw : c.call = "create" /\ c.ok /\ LastSlash(c.path) # 0

\* C11: after a completed full inbound sync every item of a configured
\* external folder E is mirrored below the top-level managed folder
\* basename(E): the item E/rest is at the managed path basename(E)/rest,
\* and getExternalPath maps that managed path back to the item.
C11_ExternalFolderMirrored ==
    SyncCompleted =>
        \A i \in DOMAIN settings.externalIncludedFolders :
            \A q \in ExtPaths :
                LET E == settings.externalIncludedFolders[i]
                    m == Join(Basename(E), PathRelative(E, q))
                IN  (Under(q, E) /\ Get(ext, q).k # "none") =>
                        /\ Get(vault, m).k = Get(ext, q).k
                        /\ getExternalPath(m) = q

(***************************************************************************)
(* A second set of initial states: stores whose files lie in a/b/ or next  *)
(* to a top-level b, under the plain configuration and under               *)
(* the one with the external folder <root>/a/b.                            *)
(***************************************************************************)
\* a/b/f on both sides, and an empty top-level b on both sides
NestedStores ==
    <<[p \in ExtPaths |->
          IF p = Join(Root, pABF) THEN FileV(1)
          ELSE IF p = Join(Root, pAF) THEN Abs ELSE DirV],
      [p \in RelPaths |->
          IF p = pABF THEN FileV(1) ELSE IF p \in DirPaths THEN DirV ELSE Abs]>>

\* a/f on both sides and no a/b, and a managed folder b where the external
\* store holds a file b
BlockedStores ==
    <<Put(Put(TreeStore(Root, ExtPaths), Join(Root, pAB), Abs),
          Join(Root, pB), FileV(1)),
      Put(Put(TreeStore(EmptyPath, RelPaths), pAB, Abs), pB, DirV)>>

InitDeep ==
    /\ settings \in {BaseSettings,
                     [BaseSettings EXCEPT
                         !.externalIncludedFolders = <<Join(Root, pAB)>>]}
    /\ watchMode \in {"recursive", "fallback"}
    /\ \E s \in {NestedStores, BlockedStores} : ext = s[1] /\ vault = s[2]
    /\ guard = FALSE
    /\ timers = EmptyBag
    /\ watchQ = {}
    /\ inbound = {}
    /\ outbound = {}
    /\ prompts = {}
    /\ fullSync = IdleSync
    /\ budget = [env |-> MaxEnvSteps, sync |-> MaxFullSyncs]
    /\ log = InitLog
    /\ fileWatchers = WatchersAtLoad
    /\ statQ = {}
    /\ lifecycle = Running

SpecDeep == InitDeep /\ [][Next]_vars

\* the step renames the managed file old to new (and not a folder above it)
FileRenamed(old, new) ==
    /\ log'.op = "UserRename"
    /\ Get(vault, old).k = "file" /\ Get(vault, new).k = "none"
    /\ Get(vault', old).k = "none" /\ Get(vault', new).k = "file"
    /\ Get(vault', Dirname(old)).k = "dir"
\* the external renames, and the external file writes and deletes, of a step
RenameCalls(calls) == {e \in calls : e.call = "rename"}
FileCalls(calls) == {e \in calls : e.call \in {"writeFile", "copyFile", "unlink", "rmdir"}}
RenameOf(old, new) ==
    {[call |-> "rename", path |-> getExternalPath(old), by |-> "user"],
     [call |-> "rename", path |-> getExternalPath(new), by |-> "user"]}

\* C12: when a managed file is renamed between two participating paths and
\* the old external file exists, the step performs exactly one external
\* rename (of the old external path to the new one) and no external file
\* write or delete; after it the old external path is absent and the new
\* external path holds what the old external file held.
C12_RenameMovesExternalFile ==
    [][\A old \in FilePaths : \A new \in FilePaths :
          (/\ FileRenamed(old, new)
           /\ shouldSyncFile(old) /\ shouldSyncFile(new)
           /\ Get(ext, getExternalPath(old)).k = "file")
          => /\ RenameCalls(log'.ew) = RenameOf(old, new)
             /\ FileCalls(log'.ew) = {}
             /\ Get(ext', getExternalPath(old)).k = "none"
             /\ Get(ext', getExternalPath(new)) = Get(ext, getExternalPath(old))]_vars

\* the write of the pending syncFile o, were it to land in the state after
\* the step, leaves o's bytes at its destination
WouldLand(o) ==
    Get(FsWriteFile([World EXCEPT !.ext = ext'], o.dest, o.bytes, o.by).ext, o.dest)
        = FileV(o.bytes)
\* what the rename handler owes after handleFileRename returned r
RenameOutcome(r, old, new) ==
    /\ r.renamed <=> /\ Get(ext, getExternalPath(old)).k # "none"
                     /\ RenameCalls(log'.ew) = RenameOf(old, new)
    /\ ~r.renamed =>
           \E o \in outbound' :
               /\ o.path = new /\ o.dest = getExternalPath(new)
               /\ o.bytes = WriteContent(new, ReadContent(new, Get(vault', new).c))
               /\ WouldLand(o)

\* C13: handleFileRename returns true exactly when the old external path
\* existed and the external rename was performed; when it does not return
\* true and both paths participate, the rename handler has called syncFile
\* on the new path, whose write leaves the managed file's content at the new
\* external path.
C13_RenameOrSync ==
    [][\A old \in FilePaths : \A new \in FilePaths :
          (FileRenamed(old, new) /\ shouldSyncFile(old) /\ shouldSyncFile(new))
          => RenameOutcome(handleFileRename(World, old, new, "user"), old, new)]_vars

(***************************************************************************)
(* The round trip of one text file.  The behaviours start where a/f has    *)
(* been created with content FirstContent in the managed store and         *)
(* outbound sync has run; the user then deletes and creates files and      *)
(* answers the prompts, while the steps of the watcher and of the          *)
(* handlers interleave; no full sync runs.                                 *)
(***************************************************************************)
MaxRoundTripSteps == 2
\* the content a/f was first created with: that of the initial managed file
FirstContent == TreeStore(EmptyPath, RelPaths)[pAF].c
FirstPath == Join(Root, pAF)
\* the first synced copy: the external file of the initial state
FirstCopy == TreeStore(Root, ExtPaths)[FirstPath]

InitRoundTrip ==
    /\ settings = BaseSettings
    /\ watchMode \in {"recursive", "fallback"}
    /\ ext = TreeStore(Root, ExtPaths) /\ vault = TreeStore(EmptyPath, RelPaths)
    /\ guard = FALSE
    /\ timers = EmptyBag
    /\ watchQ = {}
    /\ inbound = {}
    /\ outbound = {}
    /\ prompts = {}
    /\ fullSync = IdleSync
    /\ budget = [env |-> MaxRoundTripSteps, sync |-> 0]
    /\ log = InitLog
    /\ fileWatchers = WatchersAtLoad
    /\ statQ = {}
    /\ lifecycle = Running

NextRoundTrip ==
    \/ \E p \in FilePaths, c \in Contents : UserCreateFile(p, c)
    \/ \E p \in RelPaths : UserDelete(p)
    \/ \E pr \in prompts : ConfirmYes(pr)
    \/ \E pr \in prompts : ConfirmNo(pr)
    \/ \E e \in watchQ : RecursiveWatchEvent(e)
    \/ \E e \in watchQ : FallbackWatchEvent(e)
    \/ \E t \in BagToSet(timers) : DebounceFires(t)
    \/ \E i \in inbound : FileChangeApply(i)
    \/ \E i \in inbound : FileChangeRetry(i)
    \/ SettleFires
    \/ \E o \in outbound : SyncFileWrite(o)

SpecRoundTrip == InitRoundTrip /\ [][NextRoundTrip]_vars

\* the suspended syncFile calls that a step lands
Landed == IF log'.op = "SyncFileWrite" THEN outbound \ outbound' ELSE {}
\* the confirmation prompts that a step answers with yes
Confirmed == IF log'.op = "ConfirmYes" THEN prompts \ prompts' ELSE {}

\* C14: round trip of the text file a/f, first created with content
\* FirstContent and synced.  (1) When the user confirms the deletion prompt
\* of its external file, no external file is left at its external path.
\* (2) When the user creates a/f again with the same content, syncFile is
\* started with the bytes of the first synced copy, and (3) when that write
\* lands in the existing directory, the external file is those bytes: the
\* new external file is byte-identical to the first synced copy.
C14_RoundTrip ==
    [][/\ \A pr \in Confirmed :
              (pr.path = FirstPath /\ ~pr.isDir) => Get(ext', FirstPath).k = "none"
       /\ (/\ log'.op = "UserCreateFile"
           /\ Get(vault, pAF).k = "none"
           /\ Get(vault', pAF) = FileV(FirstContent))
          => \E o \in outbound' :
                 o.path = pAF /\ o.dest = FirstPath /\ FileV(o.bytes) = FirstCopy
       /\ \A o \in Landed :
              (o.path = pAF /\ Get(ext, Dirname(o.dest)).k = "dir")
              => Get(ext', o.dest) = FileV(o.bytes)]_vars

\* the round trip completed: the external file was removed on confirmation
\* (its watch event is still queued), a/f exists again with the first
\* content, and the write of its syncFile has just landed
C14_Witness ==
    /\ budget.env = 0
    /\ log.op = "SyncFileWrite"
    /\ [call |-> "writeFile", path |-> FirstPath, by |-> "user"] \in log.ew
    /\ \E e \in watchQ : e.type = "rename" /\ e.full = FirstPath
    /\ Get(vault, pAF) = FileV(FirstContent)
    /\ Get(ext, FirstPath) = FirstCopy

(***************************************************************************)
(* One binary file.  The behaviours start where the image a/p.png has been *)
(* synced outbound: both stores hold it with the same bytes.  The user     *)
(* then saves it, with the same or with other bytes.                       *)
(***************************************************************************)
MaxBinarySteps == 2

BinaryStores(c) ==
    <<[q \in {Root, Join(Root, pA), Join(Root, pAP)} |->
          IF q = Join(Root, pAP) THEN FileV(c) ELSE DirV],
      [p \in {pA, pAP} |-> IF p = pAP THEN FileV(c) ELSE DirV]>>

InitBinary ==
    /\ settings \in {BaseSettings, [BaseSettings EXCEPT !.syncOnSave = FALSE]}
    /\ watchMode \in {"recursive", "fallback"}
    /\ \E c \in Contents : ext = BinaryStores(c)[1] /\ vault = BinaryStores(c)[2]
    /\ guard = FALSE
    /\ timers = EmptyBag
    /\ watchQ = {}
    /\ inbound = {}
    /\ outbound = {}
    /\ prompts = {}
    /\ fullSync = IdleSync
    /\ budget = [env |-> MaxBinarySteps, sync |-> 0]
    /\ log = InitLog
    /\ fileWatchers = WatchersAtLoad
    /\ statQ = {}
    /\ lifecycle = Running

NextBinary ==
    \/ \E c \in Contents : UserModifyFile(pAP, c)
    \/ \E o \in outbound : SyncFileWrite(o)
    \/ \E e \in watchQ : RecursiveWatchEvent(e)
    \/ \E e \in watchQ : FallbackWatchEvent(e)
    \/ \E t \in BagToSet(timers) : DebounceFires(t)
    \/ \E i \in inbound : FileChangeApply(i)

SpecBinary == InitBinary /\ [][NextBinary]_vars

\* C15: once a binary managed file has been synced outbound, a modify event
\* whose content is byte-for-byte the external copy triggers no write to
\* the external file: no syncFile started by a managed-store modify event
\* lands a write of the bytes that the external file already holds.
C15_IdenticalBinaryNotRewritten ==
    [][\A o \in Landed :
          (isBinaryFileType(o.path) /\ Get(ext, o.dest) = FileV(o.bytes))
          => [call |-> "writeFile", path |-> o.dest, by |-> o.by] \notin log'.ew]_vars

\* the external removals of a step
RemovalCalls(calls) == {e \in calls : e.call \in {"unlink", "rmdir"}}

\* C16: outside a rename, the engine removes an external file or directory
\* only in the step where the user answers yes to the confirmation prompt
\* opened for that very path; a step where the user declines leaves the
\* external store unchanged; and a prompt is opened only for a path whose
\* external counterpart exists.
C16_DeletionOnlyOnConfirmation ==
    [][/\ log'.op # "UserRename" =>
              \A e \in RemovalCalls(log'.ew) :
                  \E pr \in Confirmed : pr.path = e.path
       /\ log'.op = "ConfirmNo" => ext' = ext
       /\ \A pr \in prompts' \ prompts : Get(ext, pr.path).k # "none"]_vars

\* the user has answered yes and the external counterpart has been removed
C16_Witness ==
    /\ log.op = "ConfirmYes"
    /\ \E e \in RemovalCalls(log.ew) : Get(ext, e.path).k = "none"

\* the steps of inbound sync
InboundSteps ==
    {"RecursiveWatchEvent", "FallbackWatchEvent", "DebounceFires",
     "FileChangeApply", "FileChangeRetry",
     "SyncFromExternalPhase1", "SyncFromExternalPhase2"}

\* C17: inbound sync never deletes a managed item for good.  Every managed
\* file or folder that a step of inbound sync removes is covered by a
\* successful vault.trash call of that step, on the item or on a folder above
\* it, and no call is a permanent delete; and handleExternalFileDeletion and
\* handleExternalDirectoryDeletion leave the managed store unchanged for a
\* path that does not participate or where nothing exists.
C17_InboundOnlyTrashes ==
    [][/\ log'.op \in InboundSteps =>
              \A p \in DOMAIN vault :
                  (Get(vault, p).k # "none" /\ Get(vault', p).k = "none")
                  => \E m \in log'.mw :
                         m.call = "trash" /\ m.ok /\ Under(p, m.path)
       /\ \A m \in log'.mw : m.call # "delete"
       /\ \A rel \in DOMAIN vault :
              (~shouldSyncFile(rel) \/ Get(vault, rel).k = "none")
              => /\ handleExternalFileDeletion(World, rel).vault = vault
                 /\ handleExternalDirectoryDeletion(World, rel).vault = vault]_vars

\* a watcher step has trashed a managed folder and a file it contained
C17_Witness ==
    /\ log.op \in WatchSteps
    /\ \E m1 \in log.mw : \E m2 \in log.mw :
           /\ m1.call = "trash" /\ m1.ok /\ m1.by = "dirDeletion"
           /\ m2.call = "trash" /\ m2.ok /\ m2.by = "dirDeletion"
           /\ m1.path # m2.path /\ Under(m1.path, m2.path)
           /\ Get(vault, m1.path).k = "none" /\ Get(vault, m2.path).k = "none"

\* the handleExternalFileChange calls that compare in this step: those that
\* found the managed file at entry, and those that retry after a failed create
Compared ==
    IF log'.op \in {"FileChangeApply", "FileChangeRetry"}
    THEN {i \in inbound \ inbound' : i.existing \/ i.phase = "retry"}
    ELSE {}
ModifyIssued(p) == \E m \in log'.mw : m.call = "modify" /\ m.path = p

\* C18: when handleExternalFileChange compares the external content it has
\* read with the content of the managed file that is there (both as bytes
\* for a binary kind, as decoded strings for a text kind), it issues a
\* managed-store modify if and only if they differ, and when they are
\* equal the managed store is left unchanged.
C18_ModifyIffDifferent ==
    [][\A i \in Compared :
          Get(vault, i.vaultPath).k = "file" =>
              /\ ModifyIssued(i.vaultPath)
                     <=> ReadContent(i.vaultPath, Get(vault, i.vaultPath).c) # i.content
              /\ ReadContent(i.vaultPath, Get(vault, i.vaultPath).c) = i.content
                     => vault' = vault]_vars

\* the handler found a managed file with other content and has modified it
C18_Witness ==
    /\ log.op = "FileChangeApply"
    /\ \E m \in log.mw :
           /\ m.call = "modify" /\ m.ok /\ m.by = "change"
           /\ Get(vault, m.path) = Get(ext, Join(Root, m.path))

\* the handleExternalFileChange calls that lose the race in this step: they
\* found no managed file at entry and now find the file another handler made
RaceLost ==
    IF log'.op = "FileChangeApply"
    THEN {i \in inbound \ inbound' :
              ~i.existing /\ i.phase = "apply" /\ Get(vault, i.vaultPath).k = "file"}
    ELSE {}
\* the handlers that finish their retry in this step
Retried ==
    IF log'.op = "FileChangeRetry"
    THEN {i \in inbound \ inbound' : i.phase = "retry"}
    ELSE {}

\* C19: a handler that finds, at its create, the managed file that a racing
\* handler has created gets the duplicate error, changes nothing and waits
\* for its retry; when the retry finds that file, the handler ends with the
\* managed file holding the external content it had read (equal as bytes for
\* a binary kind, as text for a text kind).
C19_LoserRetriesAsModify ==
    [][/\ \A i \in RaceLost :
              /\ [i EXCEPT !.phase = "retry"] \in inbound'
              /\ \E m \in log'.mw :
                     m.call = "create" /\ m.path = i.vaultPath /\ ~m.ok
              /\ vault' = vault
       /\ \A i \in Retried :
              Get(vault, i.vaultPath).k = "file"
              => /\ Get(vault', i.vaultPath).k = "file"
                 /\ ReadContent(i.vaultPath, Get(vault', i.vaultPath).c)
                        = i.content]_vars

\* a retry has ended: no folder stands where an external file is, so its
\* create had failed on the file of a racing handler, and that file holds
\* the external content
C19_Witness ==
    /\ log.op = "FileChangeRetry" /\ log.mw = {} /\ inbound = {}
    /\ \A d \in DOMAIN vault :
           ~(Get(vault, d).k = "dir" /\ Get(ext, Join(Root, d)).k = "file")
    /\ \E p \in DOMAIN vault :
           Get(vault, p).k = "file" /\ Get(vault, p) = Get(ext, Join(Root, p))

(***************************************************************************)
(* A fifth set of initial states: the external directory a cannot be       *)
(* listed (no read permission), and its sibling b, which readdir returns   *)
(* after it, holds the file b/f. The vault is empty or holds the folder b. *)
(***************************************************************************)
MaxLockedSteps == 1

LockedStores ==
    { <<[q \in ExtPaths |->
            IF q = Join(Root, pA) THEN LockedDirV
            ELSE IF q \in {Root, Join(Root, pB)} THEN DirV
            ELSE IF q = Join(Root, pBF) THEN FileV(c)
            ELSE Abs],
        v>> : c \in Contents,
              v \in {EmptyStore(RelPaths), Put(EmptyStore(RelPaths), pB, DirV)} }

InitLocked ==
    /\ settings = BaseSettings
    /\ watchMode \in {"recursive", "fallback"}
    /\ \E s \in LockedStores : ext = s[1] /\ vault = s[2]
    /\ guard = FALSE
    /\ timers = EmptyBag
    /\ watchQ = {}
    /\ inbound = {}
    /\ outbound = {}
    /\ prompts = {}
    /\ fullSync = IdleSync
    /\ budget = [env |-> MaxLockedSteps, sync |-> MaxFullSyncs]
    /\ log = InitLog
    /\ fileWatchers = WatchersAtLoad
    /\ statQ = {}
    /\ lifecycle = Running

NextLocked ==
    \/ \E p \in FilePaths, c \in Contents : ExtWrite(p, c)
    \/ \E e \in watchQ : RecursiveWatchEvent(e)
    \/ \E e \in watchQ : FallbackWatchEvent(e)
    \/ \E t \in BagToSet(timers) : DebounceFires(t)
    \/ \E i \in inbound : FileChangeApply(i)
    \/ SettleFires
    \/ SyncFromExternalPhase1
    \/ SyncFromExternalPhase2

SpecLocked == InitLocked /\ [][NextLocked]_vars

\* the external path q is, or lies below, a directory that cannot be listed
BelowLocked(q) ==
    \E d \in DOMAIN ext : Get(ext, d) = LockedDirV /\ Under(q, d)

\* C20: after a completed full inbound sync in which the listing of one
\* external subdirectory failed, every external file that the policy accepts
\* and that lies outside the failing subdirectory has been processed: the
\* vault holds a file at its path with the content the sync read from it.
C20_FailureConfined ==
    SyncCompleted =>
        \A p \in FilePaths :
            (/\ Get(ext, Join(Root, p)).k = "file"
             /\ ~BelowLocked(Join(Root, p))
             /\ shouldSyncFile(p))
            => /\ Get(vault, p).k = "file"
               /\ ReadContent(p, Get(vault, p).c)
                      = ReadContent(p, Get(ext, Join(Root, p)).c)

(***************************************************************************)
(* The watch service on its own: the settings tab saves a configuration,   *)
(* the plugin is unloaded, other programs change the external directory,   *)
(* and the watcher callbacks run in the two steps their await fsStat cuts  *)
(* them into.                                                              *)
(***************************************************************************)
MaxWatchSteps == 2

WatchSettings ==
    { BaseSettings,
      [BaseSettings EXCEPT !.excludedFolders = <<pAB>>],
      [BaseSettings EXCEPT !.syncFolderPath = EmptyPath] }

InitWatch ==
    /\ settings \in WatchSettings
    /\ watchMode \in {"recursive", "fallback"}
    /\ ext = TreeStore(Root, ExtPaths)
    /\ vault = TreeStore(EmptyPath, RelPaths)
    /\ guard = FALSE
    /\ timers = EmptyBag
    /\ watchQ = {}
    /\ inbound = {}
    /\ outbound = {}
    /\ prompts = {}
    /\ fullSync = IdleSync
    /\ budget = [env |-> MaxWatchSteps, sync |-> 0]
    /\ log = InitLog
    /\ fileWatchers = WatchersAtLoad
    /\ statQ = {}
    /\ lifecycle = Running

\* the settings tab assigns the new values to plugin.settings and calls
\* saveSettings, which is suspended at its await saveData
SettingsEdited(s) ==
    /\ EnvStep
    /\ ~lifecycle.unloaded /\ ~lifecycle.saving
    /\ s # settings
    /\ settings' = s
    /\ lifecycle' = [lifecycle EXCEPT !.saving = TRUE]
    /\ FinishWatch(World, "SettingsEdited")
    /\ UNCHANGED statQ

\* saveSettings resumes: updateSettings and setupExternalWatcher
SaveSettings ==
    /\ lifecycle.saving
    /\ lifecycle' = [lifecycle EXCEPT !.saving = FALSE,
                                      !.closed = BagCardinality(fileWatchers)]
    /\ FinishWatch(setupExternalWatcher(World), "SaveSettings")
    /\ UNCHANGED <<settings, statQ, budget>>

\* onunload: closeFileWatchers
Unload ==
    /\ ~lifecycle.unloaded
    /\ lifecycle' = [lifecycle EXCEPT !.unloaded = TRUE]
    /\ FinishWatch(closeFileWatchers(World), "Unload")
    /\ UNCHANGED <<settings, statQ, budget>>

\* fs.watch delivers a raw event: the callback runs up to its await fsStat
WatchEventStart(e) ==
    /\ e \in watchQ
    /\ statQ' = IF passesToStat(World, e.full) THEN statQ \cup {e} ELSE statQ
    /\ FinishWatch([World EXCEPT !.watchQ = @ \ {e}], "WatchEventStart")
    /\ UNCHANGED <<settings, lifecycle, budget>>

\* fsStat has settled: the callback runs to its end
WatchEventResume(c) ==
    /\ c \in statQ
    /\ statQ' = statQ \ {c}
    /\ FinishWatch(IF c.rec THEN recursiveAfterStat(World, c.type, c.full)
                   ELSE fallbackAfterStat(World, c.type, c.full),
                   "WatchEventResume")
    /\ UNCHANGED <<settings, lifecycle, budget>>

NextWatch ==
    \/ \E s \in WatchSettings : SettingsEdited(s)
    \/ SaveSettings
    \/ Unload
    \/ \E p \in FilePaths, c \in Contents : ExtWrite(p, c)
    \/ \E p \in DirPaths : ExtMkdir(p)
    \/ \E p \in RelPaths : ExtRemove(p)
    \/ \E e \in watchQ : WatchEventStart(e)
    \/ \E c \in statQ : WatchEventResume(c)
    \/ \E t \in BagToSet(timers) : DebounceFires(t)
    \/ \E i \in inbound : FileChangeApply(i)
    \/ SettleFires

SpecWatch == InitWatch /\ [][NextWatch]_vars

MaxNoRootSteps == 2

NoRootSettings ==
    { [BaseSettings EXCEPT !.syncFolderPath = EmptyPath],
      [BaseSettings EXCEPT !.syncFolderPath = EmptyPath, !.syncOnSave = FALSE],
      [BaseSettings EXCEPT !.syncFolderPath = EmptyPath,
                           !.externalIncludedFolders = <<Join(Root, pAB)>>] }

InitNoRoot ==
    /\ settings \in NoRootSettings
    /\ watchMode \in {"recursive", "fallback"}
    /\ ext = TreeStore(Root, ExtPaths)
    /\ vault = TreeStore(EmptyPath, RelPaths)
    /\ guard = FALSE
    /\ timers = EmptyBag
    /\ watchQ = {}
    /\ inbound = {}
    /\ outbound = {}
    /\ prompts = {}
    /\ fullSync = IdleSync
    /\ budget = [env |-> MaxNoRootSteps, sync |-> MaxFullSyncs]
    /\ log = InitLog
    /\ fileWatchers = WatchersAtLoad
    /\ statQ = {}
    /\ lifecycle = Running

NextNoRoot ==
    \/ \E p \in FilePaths, c \in Contents : UserCreateFile(p, c)
    \/ \E p \in FilePaths, c \in Contents : UserModifyFile(p, c)
    \/ \E p \in DirPaths : UserCreateFolder(p)
    \/ \E p \in RelPaths : UserDelete(p)
    \/ \E pair \in RenamePairs : UserRename(pair[1], pair[2])
    \/ SyncAllFiles
    \/ SyncFromExternalPhase1
    \/ \E s \in NoRootSettings : SettingsEdited(s)
    \/ SaveSettings

SpecNoRoot == InitNoRoot /\ [][NextNoRoot]_vars

\* C22: while no external root is configured, no step (a vault event
\* handler, syncAllFiles, the full inbound sync, the watcher setup of a
\* settings save) writes to the external store or issues a call to either
\* store, leaves a write pending, opens a confirmation prompt or creates a
\* watcher.
C22_NoRootNoEffect ==
    [][settings.syncFolderPath = EmptyPath /\ settings'.syncFolderPath = EmptyPath
          => /\ ext' = ext
             /\ log'.ew = {} /\ log'.mw = {}
             /\ outbound' = {} /\ inbound' = {}
             /\ prompts' = {}
             /\ fileWatchers' = EmptyBag
             /\ guard' = guard /\ timers' = timers]_vars

\* with no root configured and syncOnSave on, the user has just deleted a
\* file of the vault whose name exists in the directory on disk, and an
\* earlier step has created or renamed another
C22_Witness ==
    /\ settings.syncFolderPath = EmptyPath /\ settings.syncOnSave
    /\ log.op = "UserDelete"
    /\ budget.env = 0
    /\ Get(vault, pAF).k = "none" /\ Get(ext, Join(Root, pAF)).k = "file"
    /\ \E p \in FilePaths : Get(vault, p).k = "file"

\* the watchers setupExternalWatcher is to leave behind: none without an
\* external root that exists, one recursive watcher on the root where the
\* platform accepts it, and otherwise one non-recursive watcher on the root
\* and on every directory below it that is not excluded
ExpectedWatchers ==
    IF settings.syncFolderPath = EmptyPath
       \/ Get(ext, settings.syncFolderPath).k = "none"
    THEN EmptyBag
    ELSE IF watchMode = "recursive"
         THEN SetToBag({[dir |-> settings.syncFolderPath, recursive |-> TRUE]})
         ELSE SetToBag({[dir |-> d, recursive |-> FALSE] :
                  d \in {q \in DOMAIN ext :
                            /\ Get(ext, q).k = "dir"
                            /\ Under(q, settings.syncFolderPath)
                            /\ \/ q = settings.syncFolderPath
                               \/ ~isExcluded(PathRelative(settings.syncFolderPath, q))}})

\* C23: when setupExternalWatcher has returned, at load and at the end of a
\* settings save, the watchers held are exactly the expected ones, each
\* once: nothing is left of the watchers that were active before, and the
\* new ones are the recursive root watcher or the per-directory watchers of
\* the root and of every subdirectory that is not excluded.
C23_WatchersAfterSetup ==
    log.op \in {"init", "SaveSettings"} => fileWatchers = ExpectedWatchers

\* a settings save has closed more watchers than it has set up, among them
\* the one a directory event had added for the new directory b, and the
\* fallback has skipped an excluded subdirectory
C23_Witness ==
    /\ log.op = "SaveSettings"
    /\ watchMode = "fallback"
    /\ settings.excludedFolders # << >>
    /\ BagCardinality(fileWatchers) >= 2
    /\ lifecycle.closed > BagCardinality(fileWatchers)
    /\ lifecycle.closed = Cardinality({q \in DOMAIN ext : Get(ext, q).k = "dir"})
    /\ Get(ext, Join(Root, pB)).k = "dir"
    /\ \E q \in DOMAIN ext :
           /\ Get(ext, q).k = "dir"
           /\ isExcluded(PathRelative(settings.syncFolderPath, q))

\* C24: the watch service is unwatched, or holds one recursive watcher on
\* the root and nothing else, or holds non-recursive watchers only; and no
\* directory has more than one watcher.
C24_OneWatchState ==
    /\ \A x \in BagToSet(fileWatchers) : CopiesIn(x, fileWatchers) = 1
    /\ \A x \in BagToSet(fileWatchers) : \A y \in BagToSet(fileWatchers) :
           x.dir = y.dir => x = y
    /\ (\E x \in BagToSet(fileWatchers) : x.recursive) =>
           BagCardinality(fileWatchers) = 1

\* C25: onunload leaves no watcher, and after it no step of a watcher
\* callback creates one, whether the callback was suspended at its fsStat
\* when onunload ran or not.
C25_NoWatcherAfterUnload ==
    [][/\ log'.op = "Unload" => fileWatchers' = EmptyBag
       /\ (lifecycle.unloaded /\ log'.op \in {"WatchEventStart", "WatchEventResume"})
              => fileWatchers' = fileWatchers]_vars

\* the raw event a watcher callback handles in this step
Delivered ==
    IF log'.op \in WatchSteps THEN watchQ \ watchQ' ELSE {}
\* the path of an event, relative to the external root
EventPath(e) == PathRelative(settings.syncFolderPath, e.full)

\* C26: when a watcher callback, recursive or per-directory, handles a
\* creation-type ('rename') event for an external directory d that the policy
\* accepts, and the guard is not held, the managed folder d exists at the end
\* of the step.
C26_DirectoryEventCreatesFolder ==
    [][\A e \in Delivered :
          (/\ ~guard
           /\ e.type = "rename"
           /\ Get(ext, e.full).k = "dir"
           /\ shouldSyncFile(EventPath(e))
           /\ Get(vault, EventPath(e)).k # "file")
          => Get(vault', EventPath(e)).k = "dir"]_vars

\* C27: when a watcher callback, recursive or per-directory, handles a
\* 'rename' event for a path that no longer exists, and the guard is not
\* held, then a managed folder at that path that the policy accepts is moved
\* to the trash by the directory-deletion handler, and otherwise the
\* file-deletion handler runs (it sets the guard and its settle timer).
C27_DeletionDispatch ==
    [][\A e \in Delivered :
          (/\ ~guard
           /\ e.type = "rename"
           /\ Get(ext, e.full).k = "none"
           /\ ~isExcluded(EventPath(e)))
          => IF Get(vault, EventPath(e)).k = "dir"
             THEN shouldSyncFile(EventPath(e)) =>
                      /\ Get(vault', EventPath(e)).k = "none"
                      /\ \E m \in log'.mw : /\ m.call = "trash"
                                            /\ m.path = EventPath(e)
                                            /\ m.by = "dirDeletion"
             ELSE guard' /\ BagIn(SettleTimer, timers')]_vars

\* C28: raw events for one external file that arrive within one debounce
\* delay lead to one call of handleExternalFileChange: when a debounce timer
\* fires, no other timer for the same file is still pending.
C28_BurstCoalesced ==
    [][log'.op = "DebounceFires" =>
          \A t \in BagToSet(timers) :
              (t.kind = "debounce" /\ CopiesIn(t, timers') < CopiesIn(t, timers))
              => CopiesIn(t, timers') = 0]_vars

(***************************************************************************)
(* The policy and the path mapping as pure functions: every configuration  *)
(* of PolicySettings, every path of PolicyPaths.  One step is a caller     *)
(* (syncFile) that asks shouldSyncFile and getExternalPath for a path.     *)
(***************************************************************************)
MaxPolicyPath == 4
MaxPolicyFolder == 2
SeqsUpTo(S, n) == UNION {[1..k -> S] : k \in 0..n}
PolicyPaths == SeqsUpTo({"a", "b", Slash, Backslash}, MaxPolicyPath)
PolicyFolders == SeqsUpTo({"a", "b", Slash}, MaxPolicyFolder)
FolderLists ==
    {<< >>} \cup {<<f>> : f \in PolicyFolders} \cup {<<pA, f>> : f \in PolicyFolders}
ExternalLists ==
    { << >>, <<Join(Root, pAB)>>, <<Join(Root, pB)>>,
      <<Join(Root, pA), Join(Root, pAB)>>, <<Join(Root, pAB), Join(Root, pB)>> }
PolicySettings ==
    {[BaseSettings EXCEPT !.excludedFolders = x, !.externalIncludedFolders = e] :
         x \in FolderLists, e \in ExternalLists}
    \cup {[BaseSettings EXCEPT !.syncMode = "include", !.includedFolders = x,
                               !.externalIncludedFolders = e] :
              x \in FolderLists, e \in ExternalLists}

InitPolicy ==
    /\ settings \in PolicySettings
    /\ watchMode = "recursive"
    /\ ext = TreeStore(Root, ExtPaths)
    /\ vault = TreeStore(EmptyPath, RelPaths)
    /\ guard = FALSE
    /\ timers = EmptyBag
    /\ watchQ = {}
    /\ inbound = {}
    /\ outbound = {}
    /\ prompts = {}
    /\ fullSync = IdleSync
    /\ budget = [env |-> 0, sync |-> 0]
    /\ log = InitLog
    /\ fileWatchers = WatchersAtLoad
    /\ statQ = {}
    /\ lifecycle = Running

\* the policy and the mapping are asked for a path; nothing else changes
PathQuery(p) ==
    /\ log.op = "init"
    /\ log' = [op |-> "PathQuery", mw |-> {}, ew |-> {}, errors |-> {},
               uncaught |-> FALSE, path |-> p,
               shouldSync |-> shouldSyncFile(p), dest |-> getExternalPath(p)]
    /\ UNCHANGED <<settings, watchMode, vault, ext, guard, timers, watchQ,
                   inbound, outbound, prompts, fullSync, budget, fileWatchers,
                   statQ, lifecycle>>

NextPolicy == \E p \in PolicyPaths : PathQuery(p)
SpecPolicy == InitPolicy /\ [][NextPolicy]_vars

\* the reference policy: p lies under prefix when it continues it after one
\* of the separators
LiesUnder(p, prefix, separators) ==
    /\ Len(p) > Len(prefix)
    /\ \A i \in 1..Len(prefix) : p[i] = prefix[i]
    /\ p[Len(prefix) + 1] \in separators
TopSegment(p) == Head(SplitPath(p))
ReferencePolicy(p) ==
    IF settings.syncMode = "all"
    THEN \A i \in DOMAIN settings.excludedFolders :
             /\ p # settings.excludedFolders[i]
             /\ ~LiesUnder(p, settings.excludedFolders[i], {Slash, Backslash})
    ELSE \/ \E i \in DOMAIN settings.includedFolders :
                \/ settings.includedFolders[i] = EmptyPath
                \/ p = settings.includedFolders[i]
                \/ LiesUnder(p, settings.includedFolders[i], {Slash})
         \/ \E i \in DOMAIN settings.externalIncludedFolders :
                TopSegment(p) = Basename(settings.externalIncludedFolders[i])

\* C29: for every path and configuration, shouldSyncFile agrees with the
\* reference policy: in mode "all" a path participates unless it equals an
\* excluded prefix or continues it after '/' or '\'; in mode "include" it
\* participates iff it equals or lies under an included prefix, an included
\* prefix is empty, or its top segment is the basename of an external folder.
C29_PolicyAgrees ==
    log.op = "PathQuery" => log.shouldSync = ReferencePolicy(log.path)

C29_Witness ==
    /\ log.op = "PathQuery"
    /\ settings.syncMode = "all"
    /\ settings.excludedFolders = <<pA, <<"b">> >>
    /\ log.path = <<"a", "b", "/", "a">>
    /\ log.shouldSync

\* a path the managed store can hold: segments separated by '/', none empty
IsManagedPath(p) ==
    /\ p # EmptyPath
    /\ \A i \in 1..Len(p) : p[i] # Backslash
    /\ \A i \in 1..Len(SplitPath(p)) : SplitPath(p)[i] # EmptyPath
DistinctBasenames ==
    \A i, j \in DOMAIN settings.externalIncludedFolders :
        Basename(settings.externalIncludedFolders[i])
            = Basename(settings.externalIncludedFolders[j]) => i = j

\* C30: when the external folders have pairwise distinct basenames, no two
\* distinct managed paths that participate map to the same external path.
C30_ExternalPathInjective ==
    (log.op = "PathQuery" /\ DistinctBasenames /\ IsManagedPath(log.path)
        /\ log.shouldSync)
    => \A q \in PolicyPaths :
           (IsManagedPath(q) /\ shouldSyncFile(q) /\ q # log.path)
           => getExternalPath(q) # log.dest

(***************************************************************************)
(* Folder rename onto an external directory that already exists: the vault *)
(* folder a (a/f, a/b/f) or a/b is renamed to b while <root>/b is there.    *)
(***************************************************************************)
MaxMergeSteps == 1
pBB == <<"b", "/", "b">>
pBBF == <<"b", "/", "b", "/", "f">>
MergePaths == RelPaths \cup {pBB, pBBF}
MergeExtPaths == {Root} \cup {Join(Root, p) : p \in MergePaths}
\* the renames of a folder onto b
MergePairs == { <<pA, pB>>, <<pAB, pB>> }
\* a/f and a/b/f mirrored; <root>/b exists, empty or with its own b/f
MergeExt(c1, c2, c3) ==
    [p \in MergeExtPaths |->
        IF p \in {Root, Join(Root, pA), Join(Root, pAB), Join(Root, pB)} THEN DirV
        ELSE IF p = Join(Root, pAF) THEN FileV(c1)
        ELSE IF p = Join(Root, pABF) THEN FileV(c2)
        ELSE IF p = Join(Root, pBF) /\ c3 # 0 THEN FileV(c3)
        ELSE Abs]
MergeVault(c1, c2) ==
    [p \in MergePaths |->
        IF p \in {pA, pAB} THEN DirV
        ELSE IF p = pAF THEN FileV(c1)
        ELSE IF p = pABF THEN FileV(c2)
        ELSE Abs]

InitMerge ==
    /\ settings = BaseSettings
    /\ watchMode \in {"recursive", "fallback"}
    /\ \E c1 \in Contents, c2 \in Contents, c3 \in {0} \cup Contents :
           ext = MergeExt(c1, c2, c3) /\ vault = MergeVault(c1, c2)
    /\ guard = FALSE
    /\ timers = EmptyBag
    /\ watchQ = {}
    /\ inbound = {}
    /\ outbound = {}
    /\ prompts = {}
    /\ fullSync = IdleSync
    /\ budget = [env |-> MaxMergeSteps, sync |-> 0]
    /\ log = InitLog
    /\ fileWatchers = WatchersAtLoad
    /\ statQ = {}
    /\ lifecycle = Running

NextMerge ==
    \/ \E pair \in MergePairs : UserRename(pair[1], pair[2])
    \/ \E e \in watchQ : RecursiveWatchEvent(e)
    \/ \E e \in watchQ : FallbackWatchEvent(e)
    \/ \E t \in BagToSet(timers) : DebounceFires(t)
    \/ \E i \in inbound : FileChangeApply(i)
    \/ SettleFires
    \/ \E o \in outbound : SyncFileWrite(o)

SpecMerge == InitMerge /\ [][NextMerge]_vars

\* the folder renames of a step whose external source and target both exist
\* (the renamed folder is the one whose parent stays)
Merged ==
    { pair \in MergePairs :
        /\ log'.op = "UserRename"
        /\ Get(vault, pair[1]).k = "dir" /\ Get(vault', pair[1]).k = "none"
        /\ Get(vault', pair[2]).k = "dir"
        /\ LastSlash(pair[1]) = 0 \/ Get(vault', Dirname(pair[1])).k = "dir"
        /\ Get(ext, getExternalPath(pair[1])).k = "dir"
        /\ Get(ext, getExternalPath(pair[2])).k = "dir" }

\* C31: folder rename with both external directories present.  After the
\* step (1) every file of the source tree is at the corresponding path under
\* the target with its content, (2) no subdirectory of the source is left,
\* and (3) the source directory itself is left only if something is in it.
C31_MergeMovesTree ==
    [][\A pair \in Merged :
          LET src == getExternalPath(pair[1])
              dst == getExternalPath(pair[2])
          IN  /\ \A q \in DOMAIN ext :
                     (Under(q, src) /\ Get(ext, q).k = "file")
                     => Get(ext', Rebase(q, src, dst)) = Get(ext, q)
              /\ \A q \in DOMAIN ext :
                     (Under(q, src) /\ q # src) => Get(ext', q).k = "none"
              /\ Get(ext', src).k = "dir"
                     => \E q \in DOMAIN ext' :
                            Under(q, src) /\ q # src /\ Get(ext', q).k # "none"]_vars

\* the files are moved and the source subdirectories removed (holds)
MergeMovesFiles ==
    [][\A pair \in Merged :
          LET src == getExternalPath(pair[1])
              dst == getExternalPath(pair[2])
          IN  /\ \A q \in DOMAIN ext :
                     (Under(q, src) /\ Get(ext, q).k = "file")
                     => Get(ext', Rebase(q, src, dst)) = Get(ext, q)
              /\ \A q \in DOMAIN ext :
                     (Under(q, src) /\ q # src) => Get(ext', q).k = "none"]_vars

\* C32: with syncOnSave off, a step in which the vault raises a modify event
\* for a participating file (the user saves it, or inbound sync modifies it)
\* issues no call on the external store and starts no syncFile.
C32_NoWriteWithoutSyncOnSave ==
    [][(/\ ~settings.syncOnSave
        /\ \/ log'.op = "UserModifyFile"
           \/ /\ log'.op = "FileChangeApply"
              /\ \A m \in log'.mw : m.call \in {"modify", "modifyBinary"})
       => /\ log'.ew = {}
          /\ ext' = ext
          /\ outbound' \subseteq outbound]_vars

C32_Witness ==
    /\ ~settings.syncOnSave
    /\ log.op = "UserModifyFile"
    /\ shouldSyncFile(pAP)
    /\ Get(vault, pAP).k = "file"
    /\ Get(ext, Join(Root, pAP)).k = "file"
    /\ Get(vault, pAP).c # Get(ext, Join(Root, pAP)).c
    /\ outbound = {}

\* the managed files that a step moves to the trash as handleExternalFileDeletion
TrashedByDeletion ==
    {m.path : m \in {x \in log'.mw : x.call = "trash" /\ x.by = "deletion"}}

\* C33: when a watcher callback hands a removed external file to
\* handleExternalFileDeletion, the handler trashes exactly the managed file
\* that handleExternalFileChange resolves for that external file (with the
\* external-folder substitution), if that managed file exists.
C33_DeletionResolvesSamePath ==
    [][\A e \in Delivered :
          (/\ ~guard
           /\ e.type = "rename"
           /\ Get(ext, e.full).k = "none"
           /\ ~isExcluded(EventPath(e))
           /\ shouldSyncFile(EventPath(e))
           /\ shouldSyncFile(ResolveVaultPath(e.full, EventPath(e)))
           /\ Get(vault, EventPath(e)).k # "dir")
          => TrashedByDeletion =
                 IF Get(vault, ResolveVaultPath(e.full, EventPath(e))).k = "file"
                 THEN {ResolveVaultPath(e.full, EventPath(e))}
                 ELSE {}]_vars

\* C34: while a full inbound sync is running (it is suspended between its
\* two phases), the guard is held: no other handler or timer clears it.
C34_GuardHeldDuringFullSync ==
    fullSync.pc = "phase2" => guard

(***************************************************************************)
(* The guard under fair scheduling: timers fire and suspended handlers     *)
(* resume.  External files are written and removed; one external directory *)
(* cannot be listed; in mode "include" the path b/f is outside the policy. *)
(***************************************************************************)
MaxGuardSteps == 2
MaxGuardSyncs == 1
GuardSettings ==
    { BaseSettings,
      [BaseSettings EXCEPT !.syncMode = "include", !.includedFolders = <<pA>>] }

InitGuard ==
    /\ settings \in GuardSettings
    /\ watchMode \in {"recursive", "fallback"}
    /\ \E s \in LockedStores : ext = s[1] /\ vault = s[2]
    /\ guard = FALSE
    /\ timers = EmptyBag
    /\ watchQ = {}
    /\ inbound = {}
    /\ outbound = {}
    /\ prompts = {}
    /\ fullSync = IdleSync
    /\ budget = [env |-> MaxGuardSteps, sync |-> MaxGuardSyncs]
    /\ log = InitLog
    /\ fileWatchers = WatchersAtLoad
    /\ statQ = {}
    /\ lifecycle = Running

NextGuard ==
    \/ \E p \in FilePaths, c \in Contents : ExtWrite(p, c)
    \/ \E p \in RelPaths : ExtRemove(p)
    \/ \E e \in watchQ : RecursiveWatchEvent(e)
    \/ \E e \in watchQ : FallbackWatchEvent(e)
    \/ \E t \in BagToSet(timers) : DebounceFires(t)
    \/ \E i \in inbound : FileChangeApply(i)
    \/ \E i \in inbound : FileChangeRetry(i)
    \/ SettleFires
    \/ \E o \in outbound : SyncFileWrite(o)
    \/ SyncFromExternalPhase1
    \/ SyncFromExternalPhase2

\* timers fire (settle, debounce and retry delays) and a pending write
\* lands; a handler suspended at an await resumes: no handleExternalFileChange
\* stays before its write for ever, and no full sync between its phases
GuardFairness ==
    /\ WF_vars(SettleFires)
    /\ WF_vars(\E t \in BagToSet(timers) : DebounceFires(t))
    /\ []<>(\A i \in inbound : i.phase # "apply")
    /\ WF_vars(\E i \in inbound : FileChangeRetry(i))
    /\ WF_vars(\E o \in outbound : SyncFileWrite(o))
    /\ []<>(fullSync.pc # "phase2")

SpecGuard == InitGuard /\ [][NextGuard]_vars /\ GuardFairness

\* C35: whenever the guard is set, it is eventually clear again.
C35_GuardEventuallyClear == guard ~> ~guard

\* the guard set by an operation: a deletion skipped by the policy, and a
\* full sync in which a listing failed
C35_Witness ==
    /\ guard
    /\ \/ /\ log.op \in WatchSteps
          /\ settings.syncMode = "include"
          /\ Get(ext, Join(Root, pBF)).k = "none"
          /\ BagIn(SettleTimer, timers)
       \/ /\ log.op = "SyncFromExternalPhase2"
          /\ log.errors # {}

(***************************************************************************)
(* One edit of one file, on either side, from stores that agree, and what  *)
(* the engine does with it under fair scheduling.                          *)
(***************************************************************************)
\* the folders a, a/b and b with the files a/f, a/b/f and b/f
FullStore(prefix, paths) ==
    [p \in paths |->
        IF p = prefix /\ prefix # EmptyPath THEN DirV
        ELSE IF p \in {Join(prefix, q) : q \in DirPaths} THEN DirV
        ELSE IF p \in {Join(prefix, q) : q \in FilePaths} THEN FileV(1)
        ELSE Abs]

InitEcho ==
    /\ settings \in {BaseSettings, [BaseSettings EXCEPT !.excludedFolders = <<pB>>]}
    /\ watchMode \in {"recursive", "fallback"}
    /\ ext = FullStore(Root, ExtPaths) /\ vault = FullStore(EmptyPath, RelPaths)
    /\ guard = FALSE
    /\ timers = EmptyBag
    /\ watchQ = {}
    /\ inbound = {}
    /\ outbound = {}
    /\ prompts = {}
    /\ fullSync = IdleSync
    \* a single edit
    /\ budget = [env |-> 1, sync |-> 0]
    /\ log = InitLog
    /\ fileWatchers = WatchersAtLoad
    /\ statQ = {}
    /\ lifecycle = Running

NextEcho ==
    \/ \E p \in FilePaths, c \in Contents : UserModifyFile(p, c)
    \/ \E p \in FilePaths, c \in Contents : ExtWrite(p, c)
    \/ \E e \in watchQ : RecursiveWatchEvent(e)
    \/ \E e \in watchQ : FallbackWatchEvent(e)
    \/ \E t \in BagToSet(timers) : DebounceFires(t)
    \/ \E i \in inbound : FileChangeApply(i)
    \/ \E o \in outbound : SyncFileWrite(o)

\* raw events are delivered, timers fire, a pending write lands, and no
\* handleExternalFileChange stays suspended before its write for ever
EchoFairness ==
    /\ WF_vars(\E e \in watchQ : RecursiveWatchEvent(e))
    /\ WF_vars(\E e \in watchQ : FallbackWatchEvent(e))
    /\ WF_vars(\E t \in BagToSet(timers) : DebounceFires(t))
    /\ WF_vars(\E o \in outbound : SyncFileWrite(o))
    /\ []<>(\A i \in inbound : i.phase # "apply")

SpecEcho == InitEcho /\ [][NextEcho]_vars /\ EchoFairness

\* the two copies of the participating file p read the same
CopiesAgree(v, e, p) ==
    /\ Get(v, p).k = "file" /\ Get(e, getExternalPath(p)).k = "file"
    /\ ReadContent(p, Get(v, p).c) = ReadContent(p, Get(e, getExternalPath(p)).c)
\* nothing is pending and the copies of every participating file agree
Quiescent ==
    /\ watchQ = {} /\ timers = EmptyBag /\ inbound = {} /\ outbound = {}
    /\ ~guard
    /\ \A p \in FilePaths : shouldSyncFile(p) => CopiesAgree(vault, ext, p)
\* the calls of a step that write a managed file
VaultWrites ==
    {m \in log'.mw : m.ok /\ m.call \in {"modify", "modifyBinary", "create", "createBinary"}}

MaxOverlapEdits == 2

InitOverlap ==
    /\ settings \in {BaseSettings, [BaseSettings EXCEPT !.excludedFolders = <<pB>>]}
    /\ watchMode \in {"recursive", "fallback"}
    /\ ext = FullStore(Root, ExtPaths) /\ vault = FullStore(EmptyPath, RelPaths)
    /\ guard = FALSE
    /\ timers = EmptyBag
    /\ watchQ = {}
    /\ inbound = {}
    /\ outbound = {}
    /\ prompts = {}
    /\ fullSync = IdleSync
    /\ budget = [env |-> MaxOverlapEdits, sync |-> 0]
    /\ log = InitLog
    /\ fileWatchers = WatchersAtLoad
    /\ statQ = {}
    /\ lifecycle = Running

SpecOverlap == InitOverlap /\ [][NextEcho]_vars

\* the handlers of handleExternalFileChange that have read the external file
\* and the managed file p, which was there, and have not compared yet
ReadersOf(p) ==
    {i \in inbound : i.phase = "apply" /\ i.existing /\ i.vaultPath = p}

\* C37: when the managed file is modified locally while a
\* handleExternalFileChange for it is suspended after its read of the
\* external file, the handler, when it resumes, leaves the managed file with
\* the content of the local edit.
C37_NoStaleOverwrite ==
    [][\A p \in FilePaths : \A i \in ReadersOf(p) :
           /\ log'.op = "UserModifyFile"
           /\ Get(vault', p) # Get(vault, p)
           /\ i \in inbound'
           => Get(handleExternalFileChangeApply(World, i).vault, p)' = Get(vault', p)]_vars

\* C39: when the write of a syncFile invocation lands and no other invocation
\* for the same managed file is still on its way, the external file holds
\* what the managed file holds now.
C39_LatestContentLands ==
    [][\A o \in Landed :
           /\ Get(vault', o.path).k = "file"
           /\ ~\E x \in outbound' : x.path = o.path
           => /\ Get(ext', o.dest).k = "file"
              /\ ReadContent(o.path, Get(ext', o.dest).c)
                     = ReadContent(o.path, Get(vault', o.path).c)]_vars

\* C38: when the user answers yes to a deletion prompt, every participating
\* managed file that exists and whose external copy was in sync before the
\* answer still has its external file after it.
C38_ConfirmKeepsSyncedFile ==
    [][Confirmed # {} =>
           \A p \in FilePaths :
               /\ shouldSyncFile(p)
               /\ CopiesAgree(vault, ext, p)
               /\ ~\E o \in outbound : o.path = p
               => Get(ext', getExternalPath(p)).k = "file"]_vars

====
